---- MODULE Spec2Model ----
(***************************************************************************)
(* Event-driven backtester: BarFeed, RiskManager, SimulatedBroker,         *)
(* Portfolio and the BacktestEngine per-bar loop.                          *)
(*                                                                         *)
(* Money and prices are integers (ticks).  The feed's open prices are      *)
(* multiples of 10000 so that FixedSlippage(bps=100) and                   *)
(* PercentCommission(pct=0.01) produce whole numbers, exactly as the       *)
(* 64-bit float arithmetic of the source does on these inputs.             *)
(***************************************************************************)
EXTENDS Integers, Sequences, FiniteSets, TLC

(* ------------------------------------------------------------------ *)
(* Bounds                                                             *)
(* ------------------------------------------------------------------ *)

\* number of timestamps in the feed's master index
NumBars == 3

\* Broker/Portfolio component specification: number of calls explored
MaxCalls == 4

(* ------------------------------------------------------------------ *)
(* Values                                                             *)
(* ------------------------------------------------------------------ *)

\* Python None for an optional float (stop_loss, take_profit, limit_price, n)
None == -1

\* numpy NaN returned by compute_atr
NaN == -1

Symbols == <<"A", "B">>

SymbolSet == {Symbols[i] : i \in 1..Len(Symbols)}

RISK_ID == "__risk__"

\* strategies in the order of the engine's `strategies` list
Strategies == <<"S1", "S2">>

\* declared `symbols` of each strategy
Watched(s) == IF s = "S1" THEN {"A"} ELSE {"A", "B"}

\* directions a strategy of the run emits
Directions(s) == IF s = "S1" THEN {"LONG", "FLAT"} ELSE {"LONG", "SHORT", "FLAT"}

Min(a, b) == IF a <= b THEN a ELSE b

Max(a, b) == IF a >= b THEN a ELSE b

Abs(a) == IF a < 0 THEN -a ELSE a

Last(s) == s[Len(s)]

\* Python truthiness of an Optional[float]: None and 0.0 are both falsy
Truthy(x) == x # None /\ x # 0

(* ------------------------------------------------------------------ *)
(* Feed data (the Dict[str, DataFrame] handed to BarFeed)             *)
(* ------------------------------------------------------------------ *)

OpenA == <<10000, 10000, 20000, 10000>>
HighA == <<12000, 11000, 22000, 13000>>
LowA == <<9000, 8000, 10000, 10000>>
CloseA == <<10000, 8000, 20000, 12000>>

OpenB == <<20000, 10000>>
HighB == <<20000, 30000>>
LowB == <<20000, 10000>>
CloseB == <<20000, 30000>>

\* symbol A has a row at every timestamp, symbol B at the odd ones
HasRow(sym, ts) == IF sym = "A" THEN TRUE ELSE ts % 2 = 1

MarketEvent(sym, ts) ==
    LET k == IF sym = "A" THEN ((ts - 1) % 4) + 1 ELSE (((ts - 1) \div 2) % 2) + 1
    IN  [timestamp |-> ts, symbol |-> sym,
         open   |-> IF sym = "A" THEN OpenA[k] ELSE OpenB[k],
         high   |-> IF sym = "A" THEN HighA[k] ELSE HighB[k],
         low    |-> IF sym = "A" THEN LowA[k] ELSE LowB[k],
         close  |-> IF sym = "A" THEN CloseA[k] ELSE CloseB[k],
         volume |-> 1000]

RECURSIVE Rows(_, _)
\* the DataFrame of one symbol: its rows with timestamp <= upto, ascending
Rows(sym, upto) ==
    IF upto = 0 THEN <<>>
    ELSE IF HasRow(sym, upto) THEN Append(Rows(sym, upto - 1), MarketEvent(sym, upto))
    ELSE Rows(sym, upto - 1)

\* BarFeed._data
Data(sym) == Rows(sym, NumBars)

\* BarFeed._index: sorted union of the symbols' timestamps
Index == 1..NumBars

\* BarFeed.__iter__: the bar group of timestamp ts
Events(ts) == [sym \in {s \in SymbolSet : HasRow(s, ts)} |-> MarketEvent(sym, ts)]

\* DataFrame.iloc[-n:]
ILocTail(df, n) ==
    LET len == Len(df)
        start == IF n > 0 THEN Max(len - n, 0) ELSE Min(-n, len)
    IN  SubSeq(df, start + 1, len)

\* History without the `df.index <= up_to` mask
History_NoMask(symbol, up_to, n) ==
    LET hist == Data(symbol)
    IN  IF n # None THEN ILocTail(hist, n) ELSE hist

\* BarFeed.history
History(symbol, up_to, n) ==
    LET df == Data(symbol)
        hist == SelectSeq(df, LAMBDA r : r.timestamp <= up_to)
    IN  IF n # None THEN ILocTail(hist, n) ELSE hist

(* ------------------------------------------------------------------ *)
(* BarFeed over any Dict[str, DataFrame]                              *)
(* ------------------------------------------------------------------ *)

\* largest timestamp of the frames handed to a BarFeed iterated on its own
MaxTs == 4

\* largest number of rows of such a frame
MaxRows == 2

\* DataFrame.index of a frame: the timestamps of its rows, in row order
FrameIndex(df) == [i \in 1..Len(df) |-> df[i].timestamp]

\* `ts in df.index`
InIndex(df, ts) == \E i \in 1..Len(df) : df[i].timestamp = ts

\* df.loc[ts] on a frame whose index has no duplicate
Loc(df, ts) == df[CHOOSE i \in 1..Len(df) : df[i].timestamp = ts]

RECURSIVE Ascending(_)
\* the elements of a set of timestamps in ascending order
Ascending(S) ==
    IF S = {} THEN <<>>
    ELSE LET m == CHOOSE x \in S : \A y \in S : x <= y
         IN  <<m>> \o Ascending(S \ {m})

RECURSIVE Distinct(_)
\* the elements of a sequence in order of first appearance
Distinct(xs) ==
    IF xs = <<>> THEN <<>>
    ELSE LET front == Distinct(SubSeq(xs, 1, Len(xs) - 1))
         IN  IF \E i \in 1..Len(front) : front[i] = Last(xs) THEN front
             ELSE Append(front, Last(xs))

\* the master index without .sort_index(): the frames' labels in the order met
BarFeedIndex_Unsorted(data) ==
    Distinct(FrameIndex(data[Symbols[1]]) \o FrameIndex(data[Symbols[2]]))

\* BarFeed.__init__: pd.concat(..., axis=1) aligns the close columns on the union of
\* the frames' (duplicate-free) indexes, .sort_index() orders it
BarFeedIndex(data) ==
    Ascending(UNION {{data[sym][i].timestamp : i \in 1..Len(data[sym])} : sym \in DOMAIN data})

\* BarFeed.__iter__, the body of `for ts in self._index`: the events dict of ts
IterEvents(data, ts) ==
    [symbol \in {sym \in DOMAIN data : InIndex(data[sym], ts)} |->
        LET row == Loc(data[symbol], ts)
        IN  [timestamp |-> ts, symbol |-> symbol, open |-> row.open, high |-> row.high,
             low |-> row.low, close |-> row.close, volume |-> row.volume]]

\* history that looks the symbol up with dict.get and an empty default frame
HistoryOf_Default(data, symbol, up_to, n) ==
    LET df == IF symbol \in DOMAIN data THEN data[symbol] ELSE <<>>
        hist == SelectSeq(df, LAMBDA r : r.timestamp <= up_to)
    IN  [error |-> "", rows |-> IF n # None THEN ILocTail(hist, n) ELSE hist]

\* BarFeed.history on any data: `self._data[symbol]` raises KeyError for a symbol
\* that is not a key of the dict, and then nothing is returned
HistoryOf(data, symbol, up_to, n) ==
    IF symbol \notin DOMAIN data THEN [error |-> "KeyError", rows |-> <<>>]
    ELSE LET df == data[symbol]
             hist == SelectSeq(df, LAMBDA r : r.timestamp <= up_to)
         IN  [error |-> "", rows |-> IF n # None THEN ILocTail(hist, n) ELSE hist]

\* BarFeed(data), not yet iterated
NewBarFeed(data) ==
    [data |-> data, index |-> BarFeedIndex(data), cursor |-> 0, yielded |-> <<>>]

(* ------------------------------------------------------------------ *)
(* core.py: order ids and events                                      *)
(* ------------------------------------------------------------------ *)

RECURSIVE Digits(_)
\* decimal digits of n, most significant first
Digits(n) == IF n < 10 THEN <<n>> ELSE Append(Digits(n \div 10), n % 10)

RECURSIVE ZeroPad(_, _)
\* the {:06d} part of the format: left-pad with zeros to `width` digits
ZeroPad(ds, width) == IF Len(ds) >= width THEN ds ELSE ZeroPad(<<0>> \o ds, width)

\* f"ORD-{_order_counter:06d}" for the counter value n (after the increment)
FormatId(n) == <<"ORD-">> \o ZeroPad(Digits(n), 6)

\* OrderEvent(...) with arguments d: the k-th order constructed since the counter
\* read `counter`; order_id comes from the default factory _next_id
OrderEvent(counter, k, d) ==
    [timestamp |-> d.timestamp, symbol |-> d.symbol, order_type |-> d.order_type,
     side |-> d.side, quantity |-> d.quantity, limit_price |-> d.limit_price,
     stop_loss |-> d.stop_loss, take_profit |-> d.take_profit,
     order_id |-> FormatId(counter + k), status |-> "PENDING"]

\* the arguments of an OrderEvent(...) call of manager.py (limit_price defaulted)
Draft(timestamp, symbol, order_type, side, quantity, stop_loss, take_profit) ==
    [timestamp |-> timestamp, symbol |-> symbol, order_type |-> order_type,
     side |-> side, quantity |-> quantity, limit_price |-> None,
     stop_loss |-> stop_loss, take_profit |-> take_profit]

\* the OrderEvents constructed, in order, from a list of drafts
MakeOrders(drafts, counter) ==
    [k \in 1..Len(drafts) |-> OrderEvent(counter, k, drafts[k])]

(* ------------------------------------------------------------------ *)
(* broker.py                                                          *)
(* ------------------------------------------------------------------ *)

\* SimulatedBroker(max_bars_pending=...)
max_bars_pending == 2

\* FixedSlippage(bps=100): self.bps = bps / 10_000
slippage_bps == 100

\* PercentCommission(pct=0.01), as a percentage
commission_pct == 1

\* FixedSlippage.apply
SlippageApply(side, price, quantity, bar) == (price * slippage_bps) \div 10000

\* PercentCommission.calculate
CommissionCalculate(quantity, fill_price) == (quantity * fill_price * commission_pct) \div 100

\* _try_fill that fills a crossed LIMIT order at its limit price
TryFill_AtLimit(order, bar) ==
    IF order.order_type = "MARKET" THEN bar.open
    ELSE IF order.order_type = "LIMIT" /\ order.side = "BUY" /\ bar.low <= order.limit_price
         THEN order.limit_price
    ELSE IF order.order_type = "LIMIT" /\ order.side = "SELL" /\ bar.high >= order.limit_price
         THEN order.limit_price
    ELSE None

\* SimulatedBroker._try_fill (None when the order does not fill on this bar)
TryFill(order, bar) ==
    IF order.order_type = "MARKET" THEN bar.open
    ELSE IF order.order_type = "LIMIT" /\ order.side = "BUY" /\ bar.low <= order.limit_price
         THEN Min(order.limit_price, bar.open)
    ELSE IF order.order_type = "LIMIT" /\ order.side = "SELL" /\ bar.high >= order.limit_price
         THEN Max(order.limit_price, bar.open)
    ELSE None

\* dict.get(key, default) on a function
Get(f, key, default) == IF key \in DOMAIN f THEN f[key] ELSE default

\* FillEvent whose commission is computed on the trial price
FillEvent_CommissionOnTrial(order, bar, trial, strategy_id_map) ==
    LET slip == SlippageApply(order.side, trial, order.quantity, bar)
        fill_price == IF order.side = "BUY" THEN trial + slip ELSE trial - slip
        comm == CommissionCalculate(order.quantity, trial)
    IN  [timestamp |-> bar.timestamp, symbol |-> order.symbol, side |-> order.side,
         quantity |-> order.quantity, fill_price |-> fill_price, commission |-> comm,
         slippage |-> slip * order.quantity, order_id |-> order.order_id,
         strategy_id |-> Get(strategy_id_map, order.order_id, "")]

\* FillEvent built in process_bar for a filled order
FillEvent(order, bar, trial, strategy_id_map) ==
    LET slip == SlippageApply(order.side, trial, order.quantity, bar)
        fill_price == IF order.side = "BUY" THEN trial + slip ELSE trial - slip
        comm == CommissionCalculate(order.quantity, fill_price)
    IN  [timestamp |-> bar.timestamp, symbol |-> order.symbol, side |-> order.side,
         quantity |-> order.quantity, fill_price |-> fill_price, commission |-> comm,
         slippage |-> slip * order.quantity, order_id |-> order.order_id,
         strategy_id |-> Get(strategy_id_map, order.order_id, "")]

NoFill == [timestamp |-> 0, symbol |-> "", side |-> "", quantity |-> 0, fill_price |-> 0,
           commission |-> 0, slippage |-> 0, order_id |-> <<>>, strategy_id |-> ""]

\* loop body that keeps a filled item in still_pending
ProcessItem_KeepFilled(item, market_events, strategy_id_map) ==
    LET order == item.order
        waited == item.bars_waited + 1
        kept == [order |-> order, bars_waited |-> waited]
    IN  IF order.symbol \notin DOMAIN market_events
        THEN [keep |-> TRUE, status |-> "PENDING", item |-> kept, fill |-> NoFill]
        ELSE LET bar == market_events[order.symbol]
                 trial == TryFill(order, bar)
             IN  IF trial # None
                 THEN [keep |-> TRUE, status |-> "FILLED", item |-> kept,
                       fill |-> FillEvent(order, bar, trial, strategy_id_map)]
                 ELSE IF waited >= max_bars_pending
                 THEN [keep |-> FALSE, status |-> "CANCELLED", item |-> kept, fill |-> NoFill]
                 ELSE [keep |-> TRUE, status |-> "PENDING", item |-> kept, fill |-> NoFill]

\* loop body that keeps a cancelled item in still_pending
ProcessItem_KeepCancelled(item, market_events, strategy_id_map) ==
    LET order == item.order
        waited == item.bars_waited + 1
        kept == [order |-> order, bars_waited |-> waited]
    IN  IF order.symbol \notin DOMAIN market_events
        THEN [keep |-> TRUE, status |-> "PENDING", item |-> kept, fill |-> NoFill]
        ELSE LET bar == market_events[order.symbol]
                 trial == TryFill(order, bar)
             IN  IF trial # None
                 THEN [keep |-> FALSE, status |-> "FILLED", item |-> kept,
                       fill |-> FillEvent(order, bar, trial, strategy_id_map)]
                 ELSE IF waited >= max_bars_pending
                 THEN [keep |-> TRUE, status |-> "CANCELLED", item |-> kept, fill |-> NoFill]
                 ELSE [keep |-> TRUE, status |-> "PENDING", item |-> kept, fill |-> NoFill]

\* one iteration of the loop of SimulatedBroker.process_bar
ProcessItem(item, market_events, strategy_id_map) ==
    LET order == item.order
        waited == item.bars_waited + 1
        kept == [order |-> order, bars_waited |-> waited]
    IN  IF order.symbol \notin DOMAIN market_events
        THEN [keep |-> TRUE, status |-> "PENDING", item |-> kept, fill |-> NoFill]
        ELSE LET bar == market_events[order.symbol]
                 trial == TryFill(order, bar)
             IN  IF trial # None
                 THEN [keep |-> FALSE, status |-> "FILLED", item |-> kept,
                       fill |-> FillEvent(order, bar, trial, strategy_id_map)]
                 ELSE IF waited >= max_bars_pending
                 THEN [keep |-> FALSE, status |-> "CANCELLED", item |-> kept, fill |-> NoFill]
                 ELSE [keep |-> TRUE, status |-> "PENDING", item |-> kept, fill |-> NoFill]

\* process_bar that returns its fills newest order first
BrokerProcessBar_Lifo(pend, market_events, strategy_id_map) ==
    LET outs == [i \in 1..Len(pend) |-> ProcessItem(pend[i], market_events, strategy_id_map)]
        filled == SelectSeq(outs, LAMBDA o : o.status = "FILLED")
        kept == SelectSeq(outs, LAMBDA o : o.keep)
    IN  [fills |-> [i \in 1..Len(filled) |-> filled[Len(filled) + 1 - i].fill],
         still_pending |-> [i \in 1..Len(kept) |-> kept[i].item],
         outs |-> outs]

\* SimulatedBroker.process_bar: the fills returned, the new _pending, and the
\* status each processed order is left with
BrokerProcessBar(pend, market_events, strategy_id_map) ==
    LET outs == [i \in 1..Len(pend) |-> ProcessItem(pend[i], market_events, strategy_id_map)]
        filled == SelectSeq(outs, LAMBDA o : o.status = "FILLED")
        kept == SelectSeq(outs, LAMBDA o : o.keep)
    IN  [fills |-> [i \in 1..Len(filled) |-> filled[i].fill],
         still_pending |-> [i \in 1..Len(kept) |-> kept[i].item],
         outs |-> outs]

\* the status an order object has after process_bar (orders are shared, mutable objects)
StatusAfter(order, outs) ==
    IF \E i \in 1..Len(outs) : outs[i].item.order.order_id = order.order_id
    THEN LET i == CHOOSE j \in 1..Len(outs) : outs[j].item.order.order_id = order.order_id
         IN  [order EXCEPT !.status = outs[i].status]
    ELSE order

\* _try_fill raises TypeError: a LIMIT order without limit_price reaches the
\* comparison `bar.low <= lp` (BUY) or `bar.high >= lp` (SELL) with lp = None
TryFillRaises(order, bar) == order.order_type = "LIMIT" /\ order.limit_price = None

\* position in _pending of the first item on which process_bar raises, 0 if none
\* (an item whose symbol has no bar is re-queued before _try_fill is called)
FirstFault(pend, market_events) ==
    LET faulty == {i \in 1..Len(pend) :
                    /\ pend[i].order.symbol \in DOMAIN market_events
                    /\ TryFillRaises(pend[i].order, market_events[pend[i].order.symbol])}
    IN  IF faulty = {} THEN 0 ELSE CHOOSE i \in faulty : \A j \in faulty : i <= j

\* SimulatedBroker.process_bar left by the exception at item k: the items up to k
\* have had bars_waited incremented in place, the order objects before k (shared by
\* the queue items and the callers) carry the status the loop gave them, _pending is
\* not reassigned, so it still holds the settled items, and no fill is returned
BrokerProcessBarRaised(pend, market_events, strategy_id_map, k) ==
    LET outs == [i \in 1..(k - 1) |-> ProcessItem(pend[i], market_events, strategy_id_map)]
    IN  [fills |-> <<>>,
         still_pending |-> [i \in 1..Len(pend) |->
            IF i < k THEN [order |-> [pend[i].order EXCEPT !.status = outs[i].status],
                           bars_waited |-> pend[i].bars_waited + 1]
            ELSE IF i = k THEN [pend[i] EXCEPT !.bars_waited = @ + 1]
            ELSE pend[i]],
         outs |-> outs]

(* ------------------------------------------------------------------ *)
(* portfolio.py                                                       *)
(* ------------------------------------------------------------------ *)

\* BacktestEngine(initial_capital=...)
initial_capital == 100000

\* Portfolio.__init__
NewPortfolio ==
    [cash |-> initial_capital, positions |-> <<>>, equity_curve |-> <<>>,
     trades |-> <<>>, total_commission |-> 0, total_slippage |-> 0]

\* index of the symbol's entry in the (insertion-ordered) _positions dict, 0 if absent
PosIndex(positions, sym) ==
    IF \E i \in 1..Len(positions) : positions[i].symbol = sym
    THEN CHOOSE i \in 1..Len(positions) : positions[i].symbol = sym
    ELSE 0

\* Position(symbol, quantity, avg_entry)
Position(sym, quantity, avg_entry) ==
    [symbol |-> sym, quantity |-> quantity, avg_entry |-> avg_entry,
     stop_loss |-> None, take_profit |-> None, realized_pnl |-> 0]

\* Portfolio._record_trade
RecordTrade(trades, fill, pnl) ==
    Append(trades,
        [timestamp |-> fill.timestamp, symbol |-> fill.symbol, side |-> fill.side,
         quantity |-> fill.quantity, fill_price |-> fill.fill_price,
         commission |-> fill.commission, slippage |-> fill.slippage, pnl |-> pnl,
         order_id |-> fill.order_id, strategy_id |-> fill.strategy_id])

\* the average-up division is exact on this fill (integer ticks)
AverageExact(positions, fill) ==
    LET i == PosIndex(positions, fill.symbol)
    IN  (fill.side = "BUY" /\ i # 0 /\ positions[i].quantity > 0) =>
            ((positions[i].quantity * positions[i].avg_entry
                + fill.quantity * fill.fill_price)
              % (positions[i].quantity + fill.quantity) = 0)

\* Portfolio._process_buy
ProcessBuy(p, fill) ==
    LET i == PosIndex(p.positions, fill.symbol)
        positions ==
            IF i # 0 /\ p.positions[i].quantity > 0
            THEN LET pos == p.positions[i]
                     total_qty == pos.quantity + fill.quantity
                     avg_entry == (pos.quantity * pos.avg_entry
                                    + fill.quantity * fill.fill_price) \div total_qty
                 IN  [p.positions EXCEPT ![i] =
                        [pos EXCEPT !.quantity = total_qty, !.avg_entry = avg_entry]]
            ELSE IF i # 0
            THEN [p.positions EXCEPT ![i] =
                    Position(fill.symbol, fill.quantity, fill.fill_price)]
            ELSE Append(p.positions, Position(fill.symbol, fill.quantity, fill.fill_price))
    IN  [p EXCEPT !.positions = positions, !.trades = RecordTrade(p.trades, fill, 0)]

\* s without its i-th element
RemoveAt(s, i) == SubSeq(s, 1, i - 1) \o SubSeq(s, i + 1, Len(s))

\* _process_sell that opens a short position when the symbol is not held
ProcessSell_OpenShort(p, fill) ==
    LET i == PosIndex(p.positions, fill.symbol)
    IN  IF i # 0
        THEN LET pos == p.positions[i]
                 realized == (fill.fill_price - pos.avg_entry) * fill.quantity
                 quantity == pos.quantity - fill.quantity
                 upd == [pos EXCEPT !.quantity = quantity,
                                    !.realized_pnl = pos.realized_pnl + realized]
             IN  [p EXCEPT
                    !.positions = IF quantity = 0 THEN RemoveAt(p.positions, i)
                                  ELSE [p.positions EXCEPT ![i] = upd],
                    !.trades = RecordTrade(p.trades, fill, realized)]
        ELSE [p EXCEPT
                !.positions = Append(p.positions,
                    Position(fill.symbol, -fill.quantity, fill.fill_price)),
                !.trades = RecordTrade(p.trades, fill, 0)]

\* _process_sell that realizes P&L on the quantity left after the fill
ProcessSell_QtyLeft(p, fill) ==
    LET i == PosIndex(p.positions, fill.symbol)
    IN  IF i # 0
        THEN LET pos == p.positions[i]
                 quantity == pos.quantity - fill.quantity
                 realized == (fill.fill_price - pos.avg_entry) * quantity
                 upd == [pos EXCEPT !.quantity = quantity,
                                    !.realized_pnl = pos.realized_pnl + realized]
             IN  [p EXCEPT
                    !.positions = IF quantity = 0 THEN RemoveAt(p.positions, i)
                                  ELSE [p.positions EXCEPT ![i] = upd],
                    !.trades = RecordTrade(p.trades, fill, realized)]
        ELSE [p EXCEPT !.trades = RecordTrade(p.trades, fill, 0)]

\* Portfolio._process_sell
ProcessSell(p, fill) ==
    LET i == PosIndex(p.positions, fill.symbol)
    IN  IF i # 0
        THEN LET pos == p.positions[i]
                 realized == (fill.fill_price - pos.avg_entry) * fill.quantity
                 quantity == pos.quantity - fill.quantity
                 upd == [pos EXCEPT !.quantity = quantity,
                                    !.realized_pnl = pos.realized_pnl + realized]
             IN  [p EXCEPT
                    !.positions = IF quantity = 0 THEN RemoveAt(p.positions, i)
                                  ELSE [p.positions EXCEPT ![i] = upd],
                    !.trades = RecordTrade(p.trades, fill, realized)]
        ELSE [p EXCEPT !.trades = RecordTrade(p.trades, fill, 0)]

\* Portfolio.on_fill
OnFill(p, fill) ==
    LET cost == fill.fill_price * fill.quantity + fill.commission
        q == IF fill.side = "BUY"
             THEN [ProcessBuy(p, fill) EXCEPT !.cash = p.cash - cost]
             ELSE [ProcessSell(p, fill) EXCEPT
                     !.cash = p.cash + fill.fill_price * fill.quantity - fill.commission]
    IN  [q EXCEPT !.total_commission = p.total_commission + fill.commission,
                  !.total_slippage = p.total_slippage + fill.slippage]

RECURSIVE ApplyFills(_, _)
\* engine step 5: portfolio.on_fill for each fill, in order
ApplyFills(p, fills) ==
    IF fills = <<>> THEN p ELSE ApplyFills(OnFill(p, fills[1]), Tail(fills))

\* Portfolio.attach_stop_tp
AttachStopTp(p, symbol, stop_loss, take_profit) ==
    LET i == PosIndex(p.positions, symbol)
    IN  IF i # 0
        THEN [p EXCEPT !.positions[i].stop_loss = stop_loss,
                       !.positions[i].take_profit = take_profit]
        ELSE p

\* the price mark_to_market values a position at
PriceUsed(pos, market_events) ==
    IF pos.symbol \in DOMAIN market_events THEN market_events[pos.symbol].close
    ELSE pos.avg_entry

RECURSIVE Sum(_)
\* sum of a sequence of numbers, accumulated left to right
Sum(xs) == IF xs = <<>> THEN 0 ELSE Sum(SubSeq(xs, 1, Len(xs) - 1)) + Last(xs)

\* mark_to_market that values every position at its entry price
MarkToMarket_Stale(p, timestamp, market_events) ==
    LET holdings_value == Sum([i \in 1..Len(p.positions) |->
                                p.positions[i].quantity * p.positions[i].avg_entry])
        equity == p.cash + holdings_value
    IN  [p EXCEPT !.equity_curve = Append(p.equity_curve,
            [timestamp |-> timestamp, cash |-> p.cash, holdings_value |-> holdings_value,
             equity |-> equity,
             realized_pnl |-> Sum([i \in 1..Len(p.trades) |-> p.trades[i].pnl]),
             unrealized_pnl |-> 0, drawdown |-> 0])]

\* Portfolio.mark_to_market
MarkToMarket(p, timestamp, market_events) ==
    LET price == [i \in 1..Len(p.positions) |-> PriceUsed(p.positions[i], market_events)]
        holdings_value == Sum([i \in 1..Len(p.positions) |->
                                p.positions[i].quantity * price[i]])
        unrealized_pnl == Sum([i \in 1..Len(p.positions) |->
            (price[i] - p.positions[i].avg_entry) * p.positions[i].quantity])
        equity == p.cash + holdings_value
    IN  [p EXCEPT !.equity_curve = Append(p.equity_curve,
            [timestamp |-> timestamp, cash |-> p.cash, holdings_value |-> holdings_value,
             equity |-> equity,
             realized_pnl |-> Sum([i \in 1..Len(p.trades) |-> p.trades[i].pnl]),
             unrealized_pnl |-> unrealized_pnl, drawdown |-> 0])]

\* Series.cummax(): the running maximum of a column
CumMax(xs) ==
    [i \in 1..Len(xs) |->
        CHOOSE m \in {xs[j] : j \in 1..i} : \A j \in 1..i : xs[j] <= m]

\* a quotient of two floats, kept exact as numerator and denominator
Quotient(a, b) == [num |-> a, den |-> b]

\* equity_curve whose drawdown column is equity / rolling_max
EquityCurve_NoSubtract(p) ==
    LET df == p.equity_curve
        rolling_max == CumMax([i \in 1..Len(df) |-> df[i].equity])
    IN  IF df = <<>> THEN [error |-> "KeyError", rows |-> <<>>]
        ELSE [error |-> "",
              rows |-> [i \in 1..Len(df) |->
                [df[i] EXCEPT !.drawdown = Quotient(df[i].equity, rolling_max[i])]]]

\* Portfolio.equity_curve(): pd.DataFrame(self._equity_curve).set_index("timestamp")
\* raises KeyError when _equity_curve is empty (the frame has no column); otherwise
\* the rows of _equity_curve are returned with the drawdown column recomputed as
\* (equity - rolling_max) / rolling_max
EquityCurve(p) ==
    LET df == p.equity_curve
        rolling_max == CumMax([i \in 1..Len(df) |-> df[i].equity])
    IN  IF df = <<>> THEN [error |-> "KeyError", rows |-> <<>>]
        ELSE [error |-> "",
              rows |-> [i \in 1..Len(df) |->
                [df[i] EXCEPT !.drawdown =
                    Quotient(df[i].equity - rolling_max[i], rolling_max[i])]]]

\* Portfolio.equity
Equity(p) ==
    IF p.equity_curve # <<>> THEN Last(p.equity_curve).equity ELSE initial_capital

(* ------------------------------------------------------------------ *)
(* base.py: the strategy's signal buffer                              *)
(* ------------------------------------------------------------------ *)

\* a signal strength of 1.0, in the model's unit (quarters)
FullStrength == 4

\* signal strength each strategy passes to emit_signal: 1.5 and 0.5
StrengthOf(s) == IF s = "S1" THEN 6 ELSE 2

\* stop_loss each strategy passes to emit_signal: S1 a fixed level, S2 none
StopLossOf(s) == IF s = "S1" THEN 9000 ELSE None

\* BaseStrategy.emit_signal: the SignalEvent appended (strength clamped to [0, 1])
EmitSignal(strategy_id, timestamp, symbol, direction, strength, stop_loss, take_profit) ==
    [timestamp |-> timestamp, symbol |-> symbol, strategy_id |-> strategy_id,
     direction |-> direction, strength |-> Max(0, Min(FullStrength, strength)),
     stop_loss |-> stop_loss, take_profit |-> take_profit]

\* flush_signals that returns the buffer without replacing it
FlushSignals_KeepBuffer(signals) == [out |-> signals, signals |-> signals]

\* BaseStrategy.flush_signals: `out, self._signals = self._signals, []`
FlushSignals(signals) == [out |-> signals, signals |-> <<>>]

(* ------------------------------------------------------------------ *)
(* manager.py                                                         *)
(* ------------------------------------------------------------------ *)

\* RiskManager(atr_period=1, stop_atr_multiple=2, tp_atr_multiple=4, max_open_positions=1)
atr_period == 1

stop_atr_mult == 2

tp_atr_mult == 4

max_open_positions == 1

\* ATRPositionSizer(risk_pct=0.20, atr_multiplier=2.0, max_position_pct=0.50)
risk_pct == 20

atr_multiplier == 2

max_position_pct == 50

\* FixedFractionSizer(fraction=0.50)
fraction_pct == 50

\* FixedFractionSizer(fraction=1.0)
full_fraction_pct == 100

\* true range of row i (i >= 2) of df
TrueRange(df, i) ==
    Max(Max(df[i].high - df[i].low, Abs(df[i].high - df[i - 1].close)),
        Abs(df[i].low - df[i - 1].close))

\* compute_atr: mean of the last `period` true ranges (exact for period = 1)
ComputeAtr(df, period) ==
    IF Len(df) < period + 1 THEN NaN
    ELSE LET tr == [i \in 1..(Len(df) - 1) |-> TrueRange(df, i + 1)]
         IN  Sum(ILocTail(tr, period)) \div period

\* ATRPositionSizer.size
ATRSize(equity, price, atr, strength) ==
    IF atr = NaN \/ atr <= 0 \/ price <= 0 THEN 0
    ELSE LET raw_qty == (equity * risk_pct * strength)
                            \div (100 * FullStrength * atr * atr_multiplier)
             max_qty == (equity * max_position_pct) \div (100 * price)
         IN  Max(0, Min(raw_qty, max_qty))

\* FixedFractionSizer.size
FixedFractionSize(equity, price, atr, strength) ==
    IF price <= 0 THEN 0
    ELSE Max(0, (equity * fraction_pct * strength) \div (100 * FullStrength * price))

\* FixedFractionSizer.size of the sizer built with fraction=1.0
FullFractionSize(equity, price, atr, strength) ==
    IF price <= 0 THEN 0
    ELSE Max(0, (equity * full_fraction_pct * strength) \div (100 * FullStrength * price))

\* self.sizer.size(equity, price, atr, sig.strength)
Size(cfg, equity, price, atr, strength) ==
    IF cfg.sizer = "atr" THEN ATRSize(equity, price, atr, strength)
    ELSE IF cfg.sizer = "full" THEN FullFractionSize(equity, price, atr, strength)
    ELSE FixedFractionSize(equity, price, atr, strength)

\* open_positions.get(symbol, 0.0)
HeldQty(positions, sym) ==
    IF PosIndex(positions, sym) = 0 THEN 0 ELSE positions[PosIndex(positions, sym)].quantity

\* len([s for s, q in open_positions.items() if q > 0])
OpenLongs(positions) == Len(SelectSeq(positions, LAMBDA pos : pos.quantity > 0))

\* loop body without the `already long` skip of the LONG branch
SignalOrders_NoLongSkip(cfg, sig, market_events, equity, positions) ==
    IF sig.symbol \notin DOMAIN market_events THEN <<>>
    ELSE LET price == market_events[sig.symbol].close
             atr == ComputeAtr(History(sig.symbol, sig.timestamp, atr_period + 5), atr_period)
             held_qty == HeldQty(positions, sig.symbol)
             qty == Size(cfg, equity, price, atr, sig.strength)
             sl == IF Truthy(sig.stop_loss) THEN sig.stop_loss
                   ELSE IF atr # NaN THEN price - atr * stop_atr_mult ELSE None
             tp == IF Truthy(sig.take_profit) THEN sig.take_profit
                   ELSE IF atr # NaN THEN price + atr * tp_atr_mult ELSE None
         IN  IF sig.direction = "LONG"
             THEN IF ~cfg.allow_short /\ OpenLongs(positions) >= max_open_positions
                  THEN <<>>
                  ELSE IF qty <= 0 THEN <<>>
                  ELSE <<Draft(sig.timestamp, sig.symbol, "MARKET", "BUY", qty, sl, tp)>>
             ELSE IF sig.direction = "FLAT"
             THEN IF held_qty > 0
                  THEN <<Draft(sig.timestamp, sig.symbol, "MARKET", "SELL", held_qty, None, None)>>
                  ELSE IF held_qty < 0 /\ cfg.allow_short
                  THEN <<Draft(sig.timestamp, sig.symbol, "MARKET", "BUY", Abs(held_qty), None, None)>>
                  ELSE <<>>
             ELSE IF sig.direction = "SHORT" /\ cfg.allow_short
             THEN IF held_qty < 0 THEN <<>>
                  ELSE IF qty <= 0 THEN <<>>
                  ELSE <<Draft(sig.timestamp, sig.symbol, "MARKET", "SELL", qty, None, None)>>
             ELSE <<>>

\* one iteration of the loop of RiskManager.process_signals: the orders appended
SignalOrders(cfg, sig, market_events, equity, positions) ==
    IF sig.symbol \notin DOMAIN market_events THEN <<>>
    ELSE LET price == market_events[sig.symbol].close
             atr == ComputeAtr(History(sig.symbol, sig.timestamp, atr_period + 5), atr_period)
             held_qty == HeldQty(positions, sig.symbol)
             qty == Size(cfg, equity, price, atr, sig.strength)
             sl == IF Truthy(sig.stop_loss) THEN sig.stop_loss
                   ELSE IF atr # NaN THEN price - atr * stop_atr_mult ELSE None
             tp == IF Truthy(sig.take_profit) THEN sig.take_profit
                   ELSE IF atr # NaN THEN price + atr * tp_atr_mult ELSE None
         IN  IF sig.direction = "LONG"
             THEN IF held_qty > 0 THEN <<>>
                  ELSE IF ~cfg.allow_short /\ OpenLongs(positions) >= max_open_positions
                  THEN <<>>
                  ELSE IF qty <= 0 THEN <<>>
                  ELSE <<Draft(sig.timestamp, sig.symbol, "MARKET", "BUY", qty, sl, tp)>>
             ELSE IF sig.direction = "FLAT"
             THEN IF held_qty > 0
                  THEN <<Draft(sig.timestamp, sig.symbol, "MARKET", "SELL", held_qty, None, None)>>
                  ELSE IF held_qty < 0 /\ cfg.allow_short
                  THEN <<Draft(sig.timestamp, sig.symbol, "MARKET", "BUY", Abs(held_qty), None, None)>>
                  ELSE <<>>
             ELSE IF sig.direction = "SHORT" /\ cfg.allow_short
             THEN IF held_qty < 0 THEN <<>>
                  ELSE IF qty <= 0 THEN <<>>
                  ELSE <<Draft(sig.timestamp, sig.symbol, "MARKET", "SELL", qty, None, None)>>
             ELSE <<>>

RECURSIVE ProcessSignals(_, _, _, _, _)
\* RiskManager.process_signals: the order arguments, in signal order
ProcessSignals(cfg, signals, market_events, equity, positions) ==
    IF signals = <<>> THEN <<>>
    ELSE SignalOrders(cfg, signals[1], market_events, equity, positions)
            \o ProcessSignals(cfg, Tail(signals), market_events, equity, positions)

\* loop body with two independent tests (`if` ... `if`) in place of `if` ... `elif`
StopOrders_Both(pos, market_events) ==
    IF pos.symbol \notin DOMAIN market_events \/ pos.quantity = 0 THEN <<>>
    ELSE LET bar == market_events[pos.symbol]
             sell == <<Draft(bar.timestamp, pos.symbol, "MARKET", "SELL",
                             pos.quantity, None, None)>>
         IN  IF pos.quantity > 0
             THEN (IF Truthy(pos.stop_loss) /\ bar.low <= pos.stop_loss
                   THEN sell ELSE <<>>)
                  \o (IF Truthy(pos.take_profit) /\ bar.high >= pos.take_profit
                      THEN sell ELSE <<>>)
             ELSE <<>>

\* one iteration of the loop of RiskManager.check_stop_conditions
StopOrders(pos, market_events) ==
    IF pos.symbol \notin DOMAIN market_events \/ pos.quantity = 0 THEN <<>>
    ELSE LET bar == market_events[pos.symbol]
         IN  IF pos.quantity > 0
                  /\ ((Truthy(pos.stop_loss) /\ bar.low <= pos.stop_loss)
                       \/ (Truthy(pos.take_profit) /\ bar.high >= pos.take_profit))
             THEN <<Draft(bar.timestamp, pos.symbol, "MARKET", "SELL", pos.quantity, None, None)>>
             ELSE <<>>

RECURSIVE CheckStopConditions(_, _)
\* RiskManager.check_stop_conditions over open_positions_detail, in dict order
CheckStopConditions(positions, market_events) ==
    IF positions = <<>> THEN <<>>
    ELSE StopOrders(positions[1], market_events)
            \o CheckStopConditions(Tail(positions), market_events)

(* ------------------------------------------------------------------ *)
(* engine.py                                                          *)
(* ------------------------------------------------------------------ *)

VARIABLES
    order_counter,       \* core._order_counter (module scope: one per process)
    run,                 \* 1: first engine of the process, 2: the engine built after it
    config,              \* RiskManager configuration: allow_short and the sizer
    idx,                 \* number of (timestamp, bars) pairs the loop has processed
    portfolio,           \* engine.portfolio
    pending,             \* broker._pending
    orders,              \* every OrderEvent constructed for this engine, with its status
    order_strategy_map,  \* engine._order_strategy_map
    fills,               \* the list the last process_bar call returned
    script,              \* inputs of run 1 (signals per bar, attach_stop_tp calls)
    prev,                \* trade log and equity curve of the finished run 1
    hist,                \* the last BarFeed.history call and its result (rows), or
                         \* the exception it raised (error)
    calls,               \* component specifications: number of calls made
    iter,                \* a BarFeed iterated on its own: _data, _index, the
                         \* generator's position and the pairs yielded so far
    raised,              \* the exception that left run() or process_bar: the strategy
                         \* whose on_bar raised it ("" for the broker) and the bar's
                         \* timestamp
    strat                \* a strategy driven on its own: its _signals buffer, the number
                         \* of emit_signal calls and the lists its flush_signals returned

vars == <<order_counter, run, config, idx, portfolio, pending, orders,
          order_strategy_map, fills, script, prev, hist, calls, iter, raised, strat>>

\* engine._submit, the map side: _order_strategy_map[order.order_id] = strategy_id
\* for each order of a list, strats[i] being the strategy_id given for ords[i]
Attribute(map, ords, strats) ==
    [oid \in DOMAIN map \cup {ords[i].order_id : i \in 1..Len(ords)} |->
        IF \E i \in 1..Len(ords) : ords[i].order_id = oid
        THEN strats[CHOOSE i \in 1..Len(ords) :
                        /\ ords[i].order_id = oid
                        /\ \A j \in (i + 1)..Len(ords) : ords[j].order_id # oid]
        ELSE map[oid]]

\* attribution to the last signal of the bar with the order's symbol
FirstMatch_Last(all_signals, order) ==
    LET m == SelectSeq(all_signals, LAMBDA sg : sg.symbol = order.symbol)
    IN  IF m = <<>> THEN "" ELSE m[Len(m)].strategy_id

\* next((s for s in all_signals if s.symbol == order.symbol), None) -> strategy_id
FirstMatch(all_signals, order) ==
    LET m == SelectSeq(all_signals, LAMBDA sg : sg.symbol = order.symbol)
    IN  IF m = <<>> THEN "" ELSE m[1].strategy_id

\* engine._submit, the broker side: broker.submit(order) for each order of a list
SubmitAll(pend, ords) == pend \o [i \in 1..Len(ords) |-> [order |-> ords[i], bars_waited |-> 0]]

\* steps 4 to 6 without step 6 (no mark_to_market call)
EngineSettle_NoSnapshot(e, ts, sub, res) ==
    [order_counter |-> sub.order_counter,
     config |-> e.config,
     portfolio |-> ApplyFills(e.portfolio, res.fills),
     pending |-> res.still_pending,
     orders |-> [i \in 1..Len(sub.all_orders) |-> StatusAfter(sub.all_orders[i], res.outs)],
     order_strategy_map |-> sub.order_strategy_map,
     fills |-> res.fills]

\* step 1 of a loop iteration alone: the sweep's orders, submitted to the broker and
\* recorded in the attribution map
EngineSweep(e, ts) ==
    LET stop_orders == MakeOrders(CheckStopConditions(e.portfolio.positions, Events(ts)),
                                  e.order_counter)
    IN  [order_counter |-> e.order_counter + Len(stop_orders),
         all_orders |-> e.orders \o stop_orders,
         order_strategy_map |-> Attribute(e.order_strategy_map, stop_orders,
                                          [i \in 1..Len(stop_orders) |-> RISK_ID]),
         pending |-> SubmitAll(e.pending, stop_orders)]

\* steps 1 and 3 of a loop iteration: the sweep's orders and the orders made from
\* the signals, each submitted to the broker and recorded in the attribution map
EngineSubmit(e, ts, all_signals) ==
    LET market_events == Events(ts)
        \* 1. stop-loss / take-profit sweep
        stop_orders == MakeOrders(CheckStopConditions(e.portfolio.positions, market_events),
                                  e.order_counter)
        map1 == Attribute(e.order_strategy_map, stop_orders,
                          [i \in 1..Len(stop_orders) |-> RISK_ID])
        pend1 == SubmitAll(e.pending, stop_orders)
        \* 3. signals -> orders
        sig_orders == MakeOrders(
            ProcessSignals(e.config, all_signals, market_events,
                           Equity(e.portfolio), e.portfolio.positions),
            e.order_counter + Len(stop_orders))
        map2 == Attribute(map1, sig_orders,
                          [i \in 1..Len(sig_orders) |-> FirstMatch(all_signals, sig_orders[i])])
        pend2 == SubmitAll(pend1, sig_orders)
    IN  [order_counter |-> e.order_counter + Len(stop_orders) + Len(sig_orders),
         all_orders |-> e.orders \o stop_orders \o sig_orders,
         order_strategy_map |-> map2,
         pending |-> pend2]

\* steps 4 to 6 of a loop iteration, given the engine after steps 1 and 3 (sub) and
\* what process_bar returned (res): apply the fills, mark to market
EngineSettle(e, ts, sub, res) ==
    [order_counter |-> sub.order_counter,
     config |-> e.config,
     portfolio |-> MarkToMarket(ApplyFills(e.portfolio, res.fills), ts, Events(ts)),
     pending |-> res.still_pending,
     orders |-> [i \in 1..Len(sub.all_orders) |-> StatusAfter(sub.all_orders[i], res.outs)],
     order_strategy_map |-> sub.order_strategy_map,
     fills |-> res.fills]

\* step 4 of a loop iteration: broker.process_bar on the bar group, then steps 5, 6
EngineExecute(e, ts, sub) ==
    CHOOSE out \in
        {EngineSettle(e, ts, sub, res) :
            res \in {BrokerProcessBar(sub.pending, Events(ts), sub.order_strategy_map)}} : TRUE

\* one iteration of the loop of BacktestEngine.run, for the bar group of timestamp ts
\* and the signals the strategies flush on it
EngineBar(e, ts, all_signals) ==
    CHOOSE out \in
        {EngineExecute(e, ts, sub) : sub \in {EngineSubmit(e, ts, all_signals)}} : TRUE

\* the engine's state as a record
Engine ==
    [order_counter |-> order_counter, config |-> config, portfolio |-> portfolio,
     pending |-> pending, orders |-> orders, order_strategy_map |-> order_strategy_map,
     fills |-> fills]

\* what one strategy's on_bar may leave in its buffer (flush_signals drains it)
\* (the strategies skip the symbols that have no bar, as those of examples.py do)
StrategySignals(s, ts) ==
    {<<>>} \cup {<<EmitSignal(s, ts, sym, dir, StrengthOf(s), StopLossOf(s), None)>> :
                    sym \in Watched(s) \cap DOMAIN Events(ts), dir \in Directions(s)}

\* all_signals of a bar: the strategies' flushed signals, in strategy order
AllSignals(ts) ==
    {s1 \o s2 : s1 \in StrategySignals(Strategies[1], ts),
                s2 \in StrategySignals(Strategies[2], ts)}

BarEvent(sigs) ==
    [op |-> "bar", signals |-> sigs, symbol |-> "", stop_loss |-> None, take_profit |-> None]

AttachEvent(sym, sl, tp) ==
    [op |-> "attach", signals |-> <<>>, symbol |-> sym, stop_loss |-> sl, take_profit |-> tp]

NoHist == [symbol |-> "", up_to |-> 0, n |-> None, rows |-> <<>>, error |-> ""]

NoPrev == [trades |-> <<>>, equity_curve |-> <<>>]

\* BaseStrategy.__init__: an empty buffer
NewStrategy == [signals |-> <<>>, emitted |-> 0, flushes |-> <<>>]

\* run() has not raised
NoError == [strategy |-> "", timestamp |-> 0]

NoIter == [data |-> <<>>, index |-> <<>>, cursor |-> 0, yielded |-> <<>>]

\* RiskManager configurations of the runs explored
Configs ==
    {[allow_short |-> FALSE, sizer |-> "fixed"],
     [allow_short |-> TRUE, sizer |-> "fixed"],
     [allow_short |-> FALSE, sizer |-> "atr"]}

\* BacktestEngine.__init__ in a fresh process (core._order_counter = 0)
Init ==
    /\ order_counter = 0
    /\ run = 1
    /\ config \in Configs
    /\ idx = 0
    /\ portfolio = NewPortfolio
    /\ pending = <<>>
    /\ orders = <<>>
    /\ order_strategy_map = <<>>
    /\ fills = <<>>
    /\ script = <<>>
    /\ prev = NoPrev
    /\ hist = NoHist
    /\ calls = 0
    /\ iter = NoIter
    /\ raised = NoError
    /\ strat = NewStrategy

\* the variables the loop iteration writes
SetEngine(e) ==
    /\ order_counter' = e.order_counter
    /\ portfolio' = e.portfolio
    /\ pending' = e.pending
    /\ orders' = e.orders
    /\ order_strategy_map' = e.order_strategy_map
    /\ fills' = e.fills

\* one loop iteration of the first run, the flushed signals drawn from `choices`
RunBarOn(choices) ==
    /\ run = 1
    /\ raised = NoError
    /\ idx < NumBars
    /\ \E sigs \in choices :
        /\ script' = Append(script, BarEvent(sigs))
        /\ \E e \in {EngineBar(Engine, idx + 1, sigs)} : SetEngine(e)
    /\ idx' = idx + 1
    /\ UNCHANGED <<strat, iter, raised, run, config, prev, hist, calls>>

\* (stop_loss, take_profit) levels attach_stop_tp is called with
StopLevels == {<<9000, 21000>>}

\* Portfolio.attach_stop_tp called between two bars on an open position without levels
AttachStop ==
    /\ run = 1
    /\ raised = NoError
    /\ idx < NumBars
    /\ \E i \in 1..Len(portfolio.positions), lv \in StopLevels :
        LET pos == portfolio.positions[i]
        IN  /\ pos.stop_loss = None /\ pos.take_profit = None
            /\ portfolio' = AttachStopTp(portfolio, pos.symbol, lv[1], lv[2])
            /\ script' = Append(script, AttachEvent(pos.symbol, lv[1], lv[2]))
    /\ UNCHANGED <<strat, iter, raised, order_counter, run, config, idx, pending, orders,
                   order_strategy_map, fills, prev, hist, calls>>

\* BacktestEngine.__init__: fresh Portfolio, broker queue and attribution map; the
\* module-scope order counter is not touched
NewEngine(counter, cfg) ==
    [order_counter |-> counter, config |-> cfg, portfolio |-> NewPortfolio,
     pending |-> <<>>, orders |-> <<>>, order_strategy_map |-> <<>>, fills |-> <<>>]

RECURSIVE Replay(_, _, _)
\* BacktestEngine.run on the inputs `events`, from the loop position ts
Replay(e, ts, events) ==
    IF events = <<>> THEN e
    ELSE IF events[1].op = "bar"
    THEN Replay(EngineBar(e, ts + 1, events[1].signals), ts + 1, Tail(events))
    ELSE Replay([e EXCEPT !.portfolio = AttachStopTp(e.portfolio, events[1].symbol,
                                            events[1].stop_loss, events[1].take_profit)],
                ts, Tail(events))

\* after run 1 returned, a second BacktestEngine is constructed in the same process
\* on the same feed and configuration, with fresh strategies, and run to the end on
\* the same inputs
SecondRun ==
    /\ run = 1
    /\ raised = NoError
    /\ idx = NumBars
    /\ prev' = [trades |-> portfolio.trades, equity_curve |-> portfolio.equity_curve]
    /\ run' = 2
    /\ SetEngine(Replay(NewEngine(order_counter, config), 0, script))
    /\ UNCHANGED <<strat, iter, raised, config, idx, script, hist, calls>>

\* BacktestEngine.run: one iteration of `for timestamp, market_events in self.feed`
RunBar == RunBarOn(AllSignals(idx + 1))

Next == RunBar \/ AttachStop \/ SecondRun

Spec == Init /\ [][Next]_vars

\* BacktestEngine.run alone: the loop takes its next iteration whenever the feed
\* has a pair left (weak fairness: nothing but the loop itself runs)
NextRun == RunBar

SpecRun == Init /\ [][NextRun]_vars /\ WF_vars(RunBar)

(* ------------------------------------------------------------------ *)
(* The run with FixedFractionSizer(fraction=1.0)                      *)
(* ------------------------------------------------------------------ *)

InitFull ==
    /\ order_counter = 0
    /\ run = 1
    /\ config = [allow_short |-> FALSE, sizer |-> "full"]
    /\ idx = 0
    /\ portfolio = NewPortfolio
    /\ pending = <<>>
    /\ orders = <<>>
    /\ order_strategy_map = <<>>
    /\ fills = <<>>
    /\ script = <<>>
    /\ prev = NoPrev
    /\ hist = NoHist
    /\ calls = 0
    /\ iter = NoIter
    /\ raised = NoError
    /\ strat = NewStrategy

SpecFull == InitFull /\ [][NextRun]_vars

(* ------------------------------------------------------------------ *)
(* A strategy whose on_bar raises                                     *)
(* ------------------------------------------------------------------ *)

\* the loop with try/finally around the iteration: the bar is completed without
\* signals and marked to market before the exception leaves run()
StrategyRaises_Snapshot ==
    /\ run = 1
    /\ raised = NoError
    /\ idx < NumBars
    /\ \E i \in 1..Len(Strategies) :
        raised' = [strategy |-> Strategies[i], timestamp |-> idx + 1]
    /\ \E e \in {EngineBar(Engine, idx + 1, <<>>)} : SetEngine(e)
    /\ UNCHANGED <<strat, run, config, idx, script, prev, hist, calls, iter>>

\* step 2 of a loop iteration in which strat.on_bar raises: the sweep of step 1 has
\* submitted its orders, nothing catches the exception, so steps 3 to 6 are not
\* executed and the exception leaves the for loop and run()
StrategyRaises ==
    /\ run = 1
    /\ raised = NoError
    /\ idx < NumBars
    /\ \E i \in 1..Len(Strategies) :
        raised' = [strategy |-> Strategies[i], timestamp |-> idx + 1]
    /\ \E sub \in {EngineSweep(Engine, idx + 1)} :
        /\ order_counter' = sub.order_counter
        /\ orders' = sub.all_orders
        /\ order_strategy_map' = sub.order_strategy_map
        /\ pending' = sub.pending
    /\ UNCHANGED <<strat, run, config, idx, portfolio, fills, script, prev, hist, calls, iter>>

NextRaise == RunBar \/ AttachStop \/ StrategyRaises

SpecRaise == Init /\ [][NextRaise]_vars

(* ------------------------------------------------------------------ *)
(* BarFeed.history called by strategies while the loop runs           *)
(* ------------------------------------------------------------------ *)

\* `n` arguments of the history calls (None: n absent)
HistoryN == {None, 0, 1, 2, 3}

\* `up_to` arguments of the history calls: any timestamp, before, inside or at the
\* end of the feed
HistoryUpTo == 0..NumBars

\* a loop iteration on which all_signals stays empty: the engine has no strategies,
\* or none of them emits
QuietBar == RunBarOn({<<>>})

\* BaseStrategy.history(symbol, up_to, n) called from on_bar while the loop is at
\* timestamp idx
StrategyHistory ==
    /\ idx >= 1
    /\ \E sym \in SymbolSet, up_to \in HistoryUpTo, n \in HistoryN :
        hist' = [symbol |-> sym, up_to |-> up_to, n |-> n, rows |-> History(sym, up_to, n),
                 error |-> ""]
    /\ UNCHANGED <<strat, iter, raised, order_counter, run, config, idx, portfolio, pending, orders,
                   order_strategy_map, fills, script, prev, calls>>

InitOne == Init /\ config = [allow_short |-> FALSE, sizer |-> "fixed"]

NextFeed == QuietBar \/ StrategyHistory

SpecFeed == InitOne /\ [][NextFeed]_vars

(* ------------------------------------------------------------------ *)
(* SimulatedBroker driven directly: any sequence of submit and        *)
(* process_bar calls                                                  *)
(* ------------------------------------------------------------------ *)

\* limit price of the LIMIT orders submitted, by side
LimitOf(side) == IF side = "BUY" THEN 9000 ELSE 21000

\* limit prices of the LIMIT orders submitted: for A also one that the open of
\* some bars lies beyond (below a BUY limit, above a SELL limit)
LimitInputs(sym, side) == IF sym = "A" THEN {LimitOf(side), 11000} ELSE {LimitOf(side)}

\* the orders submitted (10 shares: slippage and commission are whole ticks)
OrderInputs ==
    {[timestamp |-> 0, symbol |-> sym, order_type |-> "MARKET", side |-> side,
      quantity |-> 10, limit_price |-> None, stop_loss |-> None, take_profit |-> None] :
        sym \in SymbolSet, side \in {"BUY", "SELL"}}
    \cup
    {[timestamp |-> 0, symbol |-> d[1], order_type |-> "LIMIT", side |-> d[2],
      quantity |-> 10, limit_price |-> d[3], stop_loss |-> None, take_profit |-> None] :
        d \in {<<sym, side, lp>> \in SymbolSet \X {"BUY", "SELL"} \X {9000, 11000, 21000} :
                    lp \in LimitInputs(sym, side)}}

\* an OrderEvent is constructed and handed to SimulatedBroker.submit
Submit ==
    /\ calls < MaxCalls
    /\ \E d \in OrderInputs :
        LET order == OrderEvent(order_counter, 1, d)
        IN  /\ pending' = SubmitAll(pending, <<order>>)
            /\ orders' = Append(orders, order)
    /\ order_counter' = order_counter + 1
    /\ calls' = calls + 1
    /\ UNCHANGED <<strat, iter, raised, run, config, idx, portfolio, order_strategy_map, fills,
                   script, prev, hist>>

\* SimulatedBroker.process_bar called with one of the feed's bar groups (idx: the
\* timestamp of the group handed over)
ProcessBar ==
    /\ calls < MaxCalls
    /\ \E ts \in Index :
        LET res == BrokerProcessBar(pending, Events(ts), order_strategy_map)
        IN  /\ pending' = res.still_pending
            /\ fills' = res.fills
            /\ orders' = [i \in 1..Len(orders) |-> StatusAfter(orders[i], res.outs)]
            /\ idx' = ts
    /\ calls' = calls + 1
    /\ UNCHANGED <<strat, iter, raised, order_counter, run, config, portfolio, order_strategy_map,
                   script, prev, hist>>

NextBroker == Submit \/ ProcessBar

SpecBroker == InitOne /\ [][NextBroker]_vars

(* ------------------------------------------------------------------ *)
(* SimulatedBroker handed a LIMIT order without limit_price           *)
(* ------------------------------------------------------------------ *)

\* the orders submitted: the MARKET orders and LIMIT orders left with the default
\* limit_price = None
FaultInputs ==
    {d \in OrderInputs : d.order_type = "MARKET"}
    \cup
    {[timestamp |-> 0, symbol |-> sym, order_type |-> "LIMIT", side |-> side,
      quantity |-> 10, limit_price |-> None, stop_loss |-> None, take_profit |-> None] :
        sym \in SymbolSet, side \in {"BUY", "SELL"}}

SubmitAny ==
    /\ calls < MaxCalls
    /\ raised = NoError
    /\ \E d \in FaultInputs :
        LET order == OrderEvent(order_counter, 1, d)
        IN  /\ pending' = SubmitAll(pending, <<order>>)
            /\ orders' = Append(orders, order)
    /\ order_counter' = order_counter + 1
    /\ calls' = calls + 1
    /\ UNCHANGED <<strat, iter, raised, run, config, idx, portfolio, order_strategy_map, fills,
                   script, prev, hist>>

\* SimulatedBroker.process_bar called with one of the feed's bar groups: it returns
\* its fills, or the TypeError of _try_fill leaves it (nothing in process_bar, nor in
\* the engine loop that calls it, catches the exception)
ProcessBarChecked ==
    /\ calls < MaxCalls
    /\ raised = NoError
    /\ \E ts \in Index :
        LET k == FirstFault(pending, Events(ts))
            res == IF k = 0
                   THEN BrokerProcessBar(pending, Events(ts), order_strategy_map)
                   ELSE BrokerProcessBarRaised(pending, Events(ts), order_strategy_map, k)
        IN  /\ pending' = res.still_pending
            /\ fills' = IF k = 0 THEN res.fills ELSE fills
            /\ orders' = [i \in 1..Len(orders) |-> StatusAfter(orders[i], res.outs)]
            /\ raised' = IF k = 0 THEN raised ELSE [strategy |-> "", timestamp |-> ts]
            /\ idx' = ts
    /\ calls' = calls + 1
    /\ UNCHANGED <<strat, iter, order_counter, run, config, portfolio, order_strategy_map,
                   script, prev, hist>>

NextFault == SubmitAny \/ ProcessBarChecked

SpecFault == InitOne /\ [][NextFault]_vars

(* ------------------------------------------------------------------ *)
(* Portfolio driven directly: any sequence of on_fill and             *)
(* mark_to_market calls                                               *)
(* ------------------------------------------------------------------ *)

\* fill prices of the fills applied, by symbol
FillPrices(sym) == IF sym = "A" THEN {10000, 20000} ELSE {20000}

\* the fills applied
FillInputs ==
    {[timestamp |-> 0, symbol |-> sym, side |-> side, quantity |-> q, fill_price |-> fp,
      commission |-> 100, slippage |-> 0, order_id |-> FormatId(1), strategy_id |-> ""] :
        sym \in SymbolSet, side \in {"BUY", "SELL"}, q \in {1, 2},
        fp \in FillPrices("A") \cup FillPrices("B")}

\* Portfolio.on_fill (fills whose average-up is a whole number of ticks)
OnFillCall ==
    /\ calls < MaxCalls
    /\ \E f \in FillInputs :
        /\ f.fill_price \in FillPrices(f.symbol)
        /\ AverageExact(portfolio.positions, f)
        /\ portfolio' = OnFill(portfolio, f)
    /\ calls' = calls + 1
    /\ UNCHANGED <<strat, iter, raised, order_counter, run, config, idx, pending, orders,
                   order_strategy_map, fills, script, prev, hist>>

\* Portfolio.mark_to_market with one of the feed's bar groups
MarkToMarketCall ==
    /\ calls < MaxCalls
    /\ \E ts \in Index :
        portfolio' = MarkToMarket(portfolio, ts, Events(ts))
    /\ calls' = calls + 1
    /\ UNCHANGED <<strat, iter, raised, order_counter, run, config, idx, pending, orders,
                   order_strategy_map, fills, script, prev, hist>>

NextPortfolio == OnFillCall \/ MarkToMarketCall

SpecPortfolio == InitOne /\ [][NextPortfolio]_vars

(* ------------------------------------------------------------------ *)
(* RiskManager.check_stop_conditions called directly on position      *)
(* details and a bar group                                            *)
(* ------------------------------------------------------------------ *)

\* (stop_loss, take_profit) of the positions handed over (None: not set)
LevelInputs ==
    {<<None, None>>, <<9000, None>>, <<None, 21000>>, <<9000, 11000>>,
     <<9000, 21000>>, <<21000, 9000>>}

\* quantities of the positions handed over, by symbol (A long or short, B long)
QtyInputs(sym) == IF sym = "A" THEN {2, -2} ELSE {1}

\* one entry of open_positions_detail
DetailInputs(sym) ==
    {[Position(sym, q, 10000) EXCEPT !.stop_loss = lv[1], !.take_profit = lv[2]] :
        q \in QtyInputs(sym), lv \in LevelInputs}

\* open_positions_detail: one entry, or B's entry followed by A's
PositionInputs ==
    {<<a>> : a \in DetailInputs("A")} \cup {<<b>> : b \in DetailInputs("B")}
        \cup {<<b, a>> : a \in DetailInputs("A"), b \in DetailInputs("B")}

\* check_stop_conditions(open_positions_detail, market_events) on a bar group of
\* the feed; `orders` holds the list returned
CheckStopCall ==
    /\ calls < MaxCalls
    /\ \E poss \in PositionInputs, ts \in Index :
        LET res == MakeOrders(CheckStopConditions(poss, Events(ts)), order_counter)
        IN  /\ portfolio' = [portfolio EXCEPT !.positions = poss]
            /\ idx' = ts
            /\ orders' = res
            /\ order_counter' = order_counter + Len(res)
    /\ calls' = calls + 1
    /\ UNCHANGED <<strat, iter, raised, run, config, pending, order_strategy_map, fills, script, prev, hist>>

NextRisk == CheckStopCall

SpecRisk == InitOne /\ [][NextRisk]_vars

(* ------------------------------------------------------------------ *)
(* BarFeed iterated directly                                          *)
(* ------------------------------------------------------------------ *)

\* indexes of the frames: up to MaxRows distinct timestamps, in any row order
IndexInputs ==
    {tss \in UNION {[1..n -> 1..MaxTs] : n \in 0..MaxRows} :
        \A i, j \in 1..Len(tss) : i # j => tss[i] # tss[j]}

\* a frame with the given index, its rows carrying the OHLCV values of the run's data
FrameOf(sym, tss) ==
    [i \in 1..Len(tss) |->
        LET bar == MarketEvent(sym, tss[i])
        IN  [timestamp |-> tss[i], open |-> bar.open, high |-> bar.high, low |-> bar.low,
             close |-> bar.close, volume |-> bar.volume]]

\* the Dict[str, DataFrame] arguments of BarFeed
FeedInputs ==
    {[sym \in SymbolSet |-> FrameOf(sym, IF sym = "A" THEN ta ELSE tb)] :
        ta \in IndexInputs, tb \in IndexInputs}

InitIter ==
    /\ order_counter = 0
    /\ run = 1
    /\ config = [allow_short |-> FALSE, sizer |-> "fixed"]
    /\ idx = 0
    /\ portfolio = NewPortfolio
    /\ pending = <<>>
    /\ orders = <<>>
    /\ order_strategy_map = <<>>
    /\ fills = <<>>
    /\ script = <<>>
    /\ prev = NoPrev
    /\ hist = NoHist
    /\ calls = 0
    /\ iter \in {NewBarFeed(data) : data \in FeedInputs}
    /\ raised = NoError
    /\ strat = NewStrategy

\* one pass of `for ts in self._index` in BarFeed.__iter__: the pair is yielded when
\* the events dict is not empty
IterNext ==
    /\ iter.cursor < Len(iter.index)
    /\ LET ts == iter.index[iter.cursor + 1]
           events == IterEvents(iter.data, ts)
       IN  iter' = [iter EXCEPT !.cursor = iter.cursor + 1,
                                !.yielded = IF DOMAIN events # {}
                                            THEN Append(iter.yielded, <<ts, events>>)
                                            ELSE iter.yielded]
    /\ UNCHANGED <<strat, order_counter, run, config, idx, portfolio, pending, orders,
                   order_strategy_map, fills, script, prev, hist, calls, raised>>

NextIter == IterNext

SpecIter == InitIter /\ [][NextIter]_vars

\* symbol arguments of the history calls: the keys of the dict and two names that
\* are not keys
LookupSymbols == SymbolSet \cup {"Z", ""}

\* BarFeed.history(symbol, up_to, n) called on the feed (one call is explored per
\* feed)
FeedHistory ==
    /\ hist = NoHist
    /\ \E sym \in LookupSymbols, up_to \in 0..MaxTs, n \in HistoryN :
        LET out == HistoryOf(iter.data, sym, up_to, n)
        IN  hist' = [symbol |-> sym, up_to |-> up_to, n |-> n, rows |-> out.rows,
                     error |-> out.error]
    /\ UNCHANGED <<strat, order_counter, run, config, idx, portfolio, pending, orders,
                   order_strategy_map, fills, script, prev, calls, iter, raised>>

NextLookup == FeedHistory

SpecLookup == InitIter /\ [][NextLookup]_vars

(* ------------------------------------------------------------------ *)
(* BaseStrategy.emit_signal / flush_signals called directly           *)
(* ------------------------------------------------------------------ *)

\* number of emit_signal calls explored
MaxEmits == 3

\* number of flush_signals calls explored
MaxFlushes == 3

\* the strategy driven on its own
Driven == Strategies[2]

\* emit_signal called by on_bar; the SignalEvent object appended is identified by
\* its emission number (seq)
Emit ==
    /\ strat.emitted < MaxEmits
    /\ \E sym \in Watched(Driven), dir \in Directions(Driven) :
        LET sig == EmitSignal(Driven, Len(strat.flushes) + 1, sym, dir,
                              StrengthOf(Driven), StopLossOf(Driven), None)
        IN  strat' = [strat EXCEPT
                !.signals = Append(strat.signals, [seq |-> strat.emitted + 1, signal |-> sig]),
                !.emitted = strat.emitted + 1]
    /\ UNCHANGED <<order_counter, run, config, idx, portfolio, pending, orders,
                   order_strategy_map, fills, script, prev, hist, calls, iter, raised>>

\* flush_signals called by the engine after on_bar
Flush ==
    /\ Len(strat.flushes) < MaxFlushes
    /\ LET res == FlushSignals(strat.signals)
       IN  strat' = [strat EXCEPT !.signals = res.signals,
                                  !.flushes = Append(strat.flushes, res.out)]
    /\ UNCHANGED <<order_counter, run, config, idx, portfolio, pending, orders,
                   order_strategy_map, fills, script, prev, hist, calls, iter, raised>>

NextStrategy == Emit \/ Flush

SpecStrategy == InitOne /\ [][NextStrategy]_vars

(* ------------------------------------------------------------------ *)
(* Properties                                                         *)
(* ------------------------------------------------------------------ *)

\* the trade-log rows (one per Fill applied) of the current run
Trades == portfolio.trades

\* the order objects a trade-log row refers to
OrdersOf(t) == {i \in 1..Len(orders) : orders[i].order_id = t.order_id}

\* the order was produced by process_signals (step 3), not by the stop/TP sweep
FromSignals(o) == Get(order_strategy_map, o.order_id, "") # RISK_ID

\* C1: every Fill of an order that process_signals created while bar T was being
\* processed (order.timestamp = T) has a timestamp strictly greater than T.
C1_FillAfterOrderBar ==
    \A j \in 1..Len(Trades) : \A i \in OrdersOf(Trades[j]) :
        FromSignals(orders[i]) => Trades[j].timestamp > orders[i].timestamp

\* C2: history(S, up_to = T, n) returns only bars whose timestamp is <= T, for
\* every symbol, every T and every n (n absent included).
C2_HistoryUpTo ==
    \A i \in 1..Len(hist.rows) : hist.rows[i].timestamp <= hist.up_to

\* C2 witness: a call with rows after up_to in the data, n = 0 (iloc[-0:] keeps all
\* the masked rows), answered with the rows up to up_to
C2_Witness ==
    /\ hist.symbol = "A" /\ hist.up_to = 2 /\ hist.n = 0
    /\ Len(hist.rows) = 2
    /\ Len(Data("A")) > 2

\* C3: while the loop is at timestamp T (= idx), no history call hands a strategy
\* a bar with timestamp > T, whatever up_to the strategy passes.
C3_NoBarBeyondLoop ==
    \A i \in 1..Len(hist.rows) : hist.rows[i].timestamp <= idx

\* the value of the positions as mark_to_market prices them on the bars of ts
HoldingsAt(positions, ts) ==
    Sum([i \in 1..Len(positions) |->
            positions[i].quantity * PriceUsed(positions[i], Events(ts))])

\* C4: every snapshot appended by mark_to_market has equity = cash + the sum over
\* the open positions of quantity * price_used (close of the symbol's bar, else
\* avg_entry), after any sequence of on_fill and mark_to_market calls.
C4_SnapshotEquity ==
    [][Len(portfolio'.equity_curve) > Len(portfolio.equity_curve) =>
        LET snap == Last(portfolio'.equity_curve)
        IN  /\ snap.cash = portfolio'.cash
            /\ snap.equity = portfolio'.cash
                    + HoldingsAt(portfolio'.positions, snap.timestamp)]_vars

\* C4 witness: a snapshot taken with two open positions, one of them (B) without
\* a bar on the snapshot's timestamp and priced at its entry
C4_Witness ==
    /\ portfolio.equity_curve # <<>>
    /\ Last(portfolio.equity_curve).timestamp = 2
    /\ Len(portfolio.positions) = 2
    /\ Last(portfolio.equity_curve).holdings_value
          = HoldingsAt(portfolio.positions, 2)
    /\ Last(portfolio.equity_curve).holdings_value > 0
    /\ \E i \in 1..2 : portfolio.positions[i].avg_entry
                            # PriceUsed(portfolio.positions[i], Events(2))

\* C5: with allow_short = false no position of the Portfolio ever has quantity < 0.
C5_NoShortPosition ==
    ~config.allow_short =>
        \A i \in 1..Len(portfolio.positions) : portfolio.positions[i].quantity >= 0

\* C5 witness: allow_short = false, a SHORT signal was given, and two SELL fills
\* of one symbol were applied on the same bar
C5_Witness ==
    /\ ~config.allow_short
    /\ \E k \in 1..Len(script) : \E m \in 1..Len(script[k].signals) :
            script[k].signals[m].direction = "SHORT"
    /\ \E i, j \in 1..Len(Trades) :
            /\ i < j
            /\ Trades[i].side = "SELL" /\ Trades[j].side = "SELL"
            /\ Trades[i].symbol = Trades[j].symbol
            /\ Trades[i].timestamp = Trades[j].timestamp

\* C6: every order in the pending queue has bars_waited <= max_bars_pending (an
\* order that reaches the limit unfilled is cancelled and removed), for any
\* sequence of submit and process_bar calls.
C6_BarsWaitedBounded ==
    \A i \in 1..Len(pending) : pending[i].bars_waited <= max_bars_pending

\* the second run has processed the whole feed
SecondRunDone == run = 2

\* C7: two runs one after the other in one process on identical inputs produce
\* identical equity curves and identical trade logs, order_id column included.
C7_RunsIdentical ==
    SecondRunDone =>
        /\ portfolio.equity_curve = prev.equity_curve
        /\ portfolio.trades = prev.trades

\* C8: the first order created in every run has order_id ORD-000001.
C8_FirstOrderId ==
    orders # <<>> => orders[1].order_id = FormatId(1)

\* C9: within a run no two orders share an order_id, no two Fills share an
\* order_id, and each Fill's order_id is that of exactly one order.
C9_UniqueOrderIds ==
    /\ \A i, j \in 1..Len(orders) :
            i # j => orders[i].order_id # orders[j].order_id
    /\ \A i, j \in 1..Len(Trades) :
            i # j => Trades[i].order_id # Trades[j].order_id
    /\ \A j \in 1..Len(Trades) : Cardinality(OrdersOf(Trades[j])) = 1

\* C9 witness: a run (the second of the process) with several orders and fills,
\* two of them filled on different bars
C9_Witness ==
    /\ run = 2
    /\ Len(orders) >= 3
    /\ \E i, j \in 1..Len(Trades) : Trades[i].timestamp < Trades[j].timestamp

\* C10: an order emitted by the stop/take-profit sweep of bar T is not filled on
\* bar T: its Fill carries the timestamp and the open of the next bar that has
\* its symbol.
C10_SweepFillsNextBar ==
    \A j \in 1..Len(Trades) : \A i \in OrdersOf(Trades[j]) :
        ~FromSignals(orders[i]) => Trades[j].timestamp > orders[i].timestamp

\* a loop iteration of the first run is being taken (the loop moves to idx + 1)
BarStep == run = 1 /\ run' = 1 /\ idx' = idx + 1

\* the trades of symbol sym that are BUYs with no SELL of the symbol after them
BuysSinceLastSell(sym) ==
    {k \in 1..Len(Trades) :
        /\ Trades[k].symbol = sym
        /\ \A j \in k..Len(Trades) : Trades[j].symbol = sym => Trades[j].side = "BUY"}

\* index of the trade that opened the position now held in sym (0 if unknown)
OpeningTrade(sym) ==
    IF BuysSinceLastSell(sym) = {} THEN 0
    ELSE CHOOSE k \in BuysSinceLastSell(sym) : \A j \in BuysSinceLastSell(sym) : k <= j

\* the long position pos was opened by a BUY order carrying a stop_loss that the
\* low of the symbol's bar at timestamp ts reaches
StopHit(pos, ts) ==
    /\ pos.quantity > 0
    /\ pos.symbol \in DOMAIN Events(ts)
    /\ OpeningTrade(pos.symbol) # 0
    /\ \E i \in OrdersOf(Trades[OpeningTrade(pos.symbol)]) :
            /\ Truthy(orders[i].stop_loss)
            /\ Events(ts)[pos.symbol].low <= orders[i].stop_loss

\* C11: when a long position opened by a BUY order carrying stop_loss s is open at
\* bar T and bar T's low <= s, the sweep of bar T emits a MARKET SELL for the full
\* position quantity and the trade log gets a SELL row attributed to "__risk__".
C11_StopLossSweep ==
    [][BarStep =>
        \A n \in 1..Len(portfolio.positions) :
            StopHit(portfolio.positions[n], idx + 1) =>
                /\ \E i \in (Len(orders) + 1)..Len(orders') :
                    /\ orders'[i].symbol = portfolio.positions[n].symbol
                    /\ orders'[i].order_type = "MARKET"
                    /\ orders'[i].side = "SELL"
                    /\ orders'[i].quantity = portfolio.positions[n].quantity
                    /\ Get(order_strategy_map', orders'[i].order_id, "") = RISK_ID
                /\ \E j \in (Len(Trades) + 1)..Len(portfolio'.trades) :
                    /\ portfolio'.trades[j].symbol = portfolio.positions[n].symbol
                    /\ portfolio'.trades[j].side = "SELL"
                    /\ portfolio'.trades[j].strategy_id = RISK_ID]_vars

\* on_fill has just been applied to one fill
OneFillApplied == Len(portfolio'.trades) = Len(portfolio.trades) + 1

\* the position held in sym before the step is long
HeldLong(sym) ==
    /\ PosIndex(portfolio.positions, sym) # 0
    /\ portfolio.positions[PosIndex(portfolio.positions, sym)].quantity > 0

\* C12: for every SELL fill applied by on_fill to a symbol held long, the trade
\* row's pnl is (fill_price - avg_entry of the position before the fill) * fill
\* quantity, and every BUY trade row has pnl = 0.
C12_TradePnl ==
    [][OneFillApplied =>
        LET t == Last(portfolio'.trades)
        IN  /\ t.side = "BUY" => t.pnl = 0
            /\ (t.side = "SELL" /\ HeldLong(t.symbol)) =>
                    t.pnl = (t.fill_price
                              - portfolio.positions[PosIndex(portfolio.positions,
                                                             t.symbol)].avg_entry)
                            * t.quantity]_vars

\* C12 witness: a long averaged up over two BUYs at different prices (1 @ 10000,
\* 1 @ 20000: avg_entry 15000), then one share sold at 20000 with pnl 5000
C12_Witness ==
    /\ Len(Trades) = 3
    /\ Trades[1].side = "BUY" /\ Trades[2].side = "BUY" /\ Trades[3].side = "SELL"
    /\ Trades[1].symbol = "A" /\ Trades[2].symbol = "A" /\ Trades[3].symbol = "A"
    /\ Trades[1].fill_price # Trades[2].fill_price
    /\ Trades[1].pnl = 0 /\ Trades[2].pnl = 0
    /\ Trades[3].pnl = 5000
    /\ Len(portfolio.positions) = 1 /\ portfolio.positions[1].quantity = 1

\* sum of the pnl column over the SELL rows of a trade log
SellPnl(trades) ==
    Sum([j \in 1..Len(trades) |-> IF trades[j].side = "SELL" THEN trades[j].pnl ELSE 0])

\* the loop of the first run has processed the whole feed
RunDone == run = 1 /\ idx = NumBars

\* C13: at the final snapshot of a run, the sum of trade pnl over SELL rows + the
\* unrealized pnl of the open positions - the total commission paid equals the
\* final equity - initial_capital.
C13_PnlAccounting ==
    RunDone =>
        SellPnl(Trades) + Last(portfolio.equity_curve).unrealized_pnl
                - portfolio.total_commission
            = Last(portfolio.equity_curve).equity - initial_capital

\* FILLED and CANCELLED, the statuses the broker assigns
Terminal(status) == status \in {"FILLED", "CANCELLED"}

\* the order is in the queue q of the broker
InQueue(q, order) == \E k \in 1..Len(q) : q[k].order.order_id = order.order_id

\* the step is a process_bar call (submit is the only call that creates an order)
ProcessBarStep == calls' = calls + 1 /\ order_counter' = order_counter

\* C14: an order's status only moves PENDING -> FILLED or PENDING -> CANCELLED;
\* once FILLED or CANCELLED the order is not in the pending queue, its status
\* never changes again and no later process_bar call returns a Fill for it.
C14_StatusTerminal ==
    [][\A i \in 1..Len(orders) :
        /\ orders'[i].status # orders[i].status =>
                orders[i].status = "PENDING" /\ Terminal(orders'[i].status)
        /\ Terminal(orders[i].status) =>
            /\ ~InQueue(pending, orders[i])
            /\ ~InQueue(pending', orders[i])
            /\ orders'[i].status = orders[i].status
            /\ ProcessBarStep =>
                    \A k \in 1..Len(fills') : fills'[k].order_id # orders[i].order_id
        /\ Terminal(orders'[i].status) => ~InQueue(pending', orders[i])]_vars

\* C14 witness: one order FILLED, another CANCELLED after waiting, and a later
\* process_bar call that returned no Fill
C14_Witness ==
    /\ Len(orders) = 2
    /\ orders[1].status = "FILLED"
    /\ orders[2].status = "CANCELLED"
    /\ pending = <<>>
    /\ fills = <<>>
    /\ calls = 4

\* C15: a stored position never changes sign in place: no single fill takes a
\* symbol's position from quantity > 0 to quantity < 0 or from quantity < 0 to
\* quantity > 0 (allow_short true or false).
C15_NoSignFlipInPlace ==
    [][OneFillApplied =>
        \A sym \in SymbolSet :
            /\ ~(HeldQty(portfolio.positions, sym) > 0
                    /\ HeldQty(portfolio'.positions, sym) < 0)
            /\ ~(HeldQty(portfolio.positions, sym) < 0
                    /\ HeldQty(portfolio'.positions, sym) > 0)]_vars

\* C16: on_fill with a SELL fill for a symbol in which no position exists creates
\* a position with quantity = -fill.quantity and avg_entry = fill.fill_price.
C16_SellOpensShort ==
    [][(OneFillApplied /\ Last(portfolio'.trades).side = "SELL"
            /\ PosIndex(portfolio.positions, Last(portfolio'.trades).symbol) = 0) =>
        LET t == Last(portfolio'.trades)
            i == PosIndex(portfolio'.positions, t.symbol)
        IN  /\ i # 0
            /\ portfolio'.positions[i].quantity = -t.quantity
            /\ portfolio'.positions[i].avg_entry = t.fill_price]_vars

\* C17: on_fill with a BUY fill for a symbol held short covers the short: the
\* trade's pnl is realized against the position's avg_entry, the quantity moves
\* toward zero by fill.quantity, the position is removed when nothing remains,
\* and the short is not replaced by a new long position.
C17_BuyCoversShort ==
    [][(OneFillApplied /\ Last(portfolio'.trades).side = "BUY"
            /\ HeldQty(portfolio.positions, Last(portfolio'.trades).symbol) < 0) =>
        LET t == Last(portfolio'.trades)
            before == portfolio.positions[PosIndex(portfolio.positions, t.symbol)]
        IN  /\ t.pnl = (before.avg_entry - t.fill_price) * t.quantity
            /\ HeldQty(portfolio'.positions, t.symbol) = before.quantity + t.quantity
            /\ before.quantity + t.quantity = 0 =>
                    PosIndex(portfolio'.positions, t.symbol) = 0]_vars

\* the signals flushed on the bar the step processes
StepSignals == Last(script').signals

\* the orders process_signals created in the step, as positions in orders'
NewSignalOrders ==
    {i \in (Len(orders) + 1)..Len(orders') :
        Get(order_strategy_map', orders'[i].order_id, "") # RISK_ID}

\* a signal of the step for symbol sym with direction dir
HasSignal(sym, dir) ==
    \E m \in 1..Len(StepSignals) :
        StepSignals[m].symbol = sym /\ StepSignals[m].direction = dir

\* C18: process_signals emits no BUY order for a LONG signal when the number of
\* symbols held long is >= max_open_positions, for every value of allow_short
\* (a BUY on a bar without a FLAT signal for its symbol comes from a LONG signal).
C18_MaxOpenPositions ==
    [][(BarStep /\ OpenLongs(portfolio.positions) >= max_open_positions) =>
        \A i \in NewSignalOrders :
            orders'[i].side = "BUY" => HasSignal(orders'[i].symbol, "FLAT")]_vars

\* number of signals of the step for symbol sym with direction dir
NumSignals(sym, dir) ==
    Cardinality({m \in 1..Len(StepSignals) :
        StepSignals[m].symbol = sym /\ StepSignals[m].direction = dir})

\* the orders process_signals created in the step for symbol sym
NewOrdersFor(sym) == {i \in NewSignalOrders : orders'[i].symbol = sym}

\* a SHORT signal of the step for sym that process_signals acts on
ShortActive(sym) == config.allow_short /\ HasSignal(sym, "SHORT")

\* C19: for a FLAT signal whose symbol has a bar, process_signals emits exactly
\* one MARKET SELL of the held quantity when the symbol is held long, exactly one
\* MARKET BUY of |held| when it is held short and allow_short is true, and no
\* order otherwise; a LONG signal on a symbol already held long emits no order.
\* (Per symbol of the bar: with only FLAT and LONG signals on a held long, the
\* orders are one SELL per FLAT signal; with only FLAT signals otherwise, one BUY
\* per signal on a short with allow_short, else none.)
C19_FlatSignalOrders ==
    [][BarStep =>
        \A sym \in DOMAIN Events(idx + 1) :
            LET held == HeldQty(portfolio.positions, sym)
            IN  /\ (held > 0 /\ ~ShortActive(sym)) =>
                    /\ Cardinality(NewOrdersFor(sym)) = NumSignals(sym, "FLAT")
                    /\ \A i \in NewOrdersFor(sym) :
                            /\ orders'[i].order_type = "MARKET"
                            /\ orders'[i].side = "SELL"
                            /\ orders'[i].quantity = held
                /\ (held < 0 /\ config.allow_short /\ ~HasSignal(sym, "LONG")
                        /\ ~HasSignal(sym, "SHORT")) =>
                    /\ Cardinality(NewOrdersFor(sym)) = NumSignals(sym, "FLAT")
                    /\ \A i \in NewOrdersFor(sym) :
                            /\ orders'[i].order_type = "MARKET"
                            /\ orders'[i].side = "BUY"
                            /\ orders'[i].quantity = Abs(held)
                /\ ((held = 0 \/ (held < 0 /\ ~config.allow_short))
                        /\ ~HasSignal(sym, "LONG") /\ ~ShortActive(sym)) =>
                    NewOrdersFor(sym) = {}]_vars

\* C19 witness: A bought on bar 1; on bar 2 S1 signals FLAT and S2 signals LONG
\* for A: one SELL of the held quantity was created and filled, nothing else
C19_Witness ==
    /\ run = 1 /\ idx = 2
    /\ Last(script).op = "bar"
    /\ Len(Last(script).signals) = 2
    /\ Last(script).signals[1].direction = "FLAT"
    /\ Last(script).signals[2].direction = "LONG"
    /\ Last(script).signals[1].symbol = "A" /\ Last(script).signals[2].symbol = "A"
    /\ Len(orders) = 2 /\ Len(Trades) = 2
    /\ Trades[1].side = "BUY" /\ Trades[1].timestamp = 1
    /\ Trades[2].side = "SELL" /\ Trades[2].timestamp = 2
    /\ Trades[2].quantity = Trades[1].quantity
    /\ orders[2].quantity = Trades[1].quantity
    /\ portfolio.positions = <<>>

\* the order is a LIMIT BUY whose limit is below the low of every bar of its symbol
LimitBuyBelowLows(order) ==
    /\ order.order_type = "LIMIT"
    /\ order.side = "BUY"
    /\ \A ts \in Index :
            order.symbol \in DOMAIN Events(ts) =>
                order.limit_price < Events(ts)[order.symbol].low

\* C20: a LIMIT BUY whose limit price is below the low of every bar processed
\* after its submission is never filled; once max_bars_pending process_bar calls
\* have passed it is CANCELLED and no longer pending, and before that it is still
\* pending.
C20_LimitBuyExpires ==
    \A i \in 1..Len(orders) :
        LimitBuyBelowLows(orders[i]) =>
            /\ orders[i].status # "FILLED"
            /\ \A k \in 1..Len(pending) :
                    pending[k].order.order_id = orders[i].order_id =>
                        /\ pending[k].bars_waited < max_bars_pending
                        /\ orders[i].status = "PENDING"
            /\ ~InQueue(pending, orders[i]) => orders[i].status = "CANCELLED"

\* the orders of the returned list for symbol sym
ReturnedFor(sym) == SelectSeq(orders, LAMBDA o : o.symbol = sym)

\* a level that is set and that the bar reaches from above (low <= level)
LowReaches(bar, level) == level # None /\ bar.low <= level

\* a level that is set and that the bar reaches from below (high >= level)
HighReaches(bar, level) == level # None /\ bar.high >= level

\* check_stop_conditions has been called on the positions of `portfolio` and the
\* bar group of timestamp idx
SweepCalled == calls >= 1

\* C21: check_stop_conditions, for each long position that has a bar, returns
\* exactly one MARKET SELL for the full quantity when bar.low <= stop_loss,
\* otherwise exactly one when bar.high >= take_profit, and none otherwise; long
\* positions without a bar or without levels produce no order.
C21_LongStopOrders ==
    SweepCalled =>
        \A n \in 1..Len(portfolio.positions) :
            LET pos == portfolio.positions[n]
                res == ReturnedFor(pos.symbol)
            IN  pos.quantity > 0 =>
                    IF pos.symbol \in DOMAIN Events(idx)
                        /\ (LowReaches(Events(idx)[pos.symbol], pos.stop_loss)
                            \/ HighReaches(Events(idx)[pos.symbol], pos.take_profit))
                    THEN /\ Len(res) = 1
                         /\ res[1].order_type = "MARKET"
                         /\ res[1].side = "SELL"
                         /\ res[1].quantity = pos.quantity
                         /\ res[1].timestamp = idx
                    ELSE res = <<>>

\* C21 witness: a long A with both levels reached by the bar of timestamp 2
\* (low 8000 <= 9000, high 11000 >= 11000) and a long B without a bar: one SELL
C21_Witness ==
    /\ SweepCalled /\ idx = 2
    /\ Len(portfolio.positions) = 2
    /\ portfolio.positions[1].symbol = "B" /\ portfolio.positions[1].quantity = 1
    /\ portfolio.positions[1].stop_loss = 21000
    /\ portfolio.positions[2].symbol = "A" /\ portfolio.positions[2].quantity = 2
    /\ portfolio.positions[2].stop_loss = 9000
    /\ portfolio.positions[2].take_profit = 11000
    /\ Len(orders) = 1
    /\ orders[1].symbol = "A" /\ orders[1].side = "SELL" /\ orders[1].quantity = 2

\* C22: check_stop_conditions treats short positions symmetrically: for a
\* position with quantity < 0 that has a bar it returns a MARKET BUY for
\* |quantity| when bar.high >= stop_loss, else when bar.low <= take_profit.
C22_ShortStopOrders ==
    SweepCalled =>
        \A n \in 1..Len(portfolio.positions) :
            LET pos == portfolio.positions[n]
                res == ReturnedFor(pos.symbol)
            IN  (/\ pos.quantity < 0
                 /\ pos.symbol \in DOMAIN Events(idx)
                 /\ (HighReaches(Events(idx)[pos.symbol], pos.stop_loss)
                        \/ LowReaches(Events(idx)[pos.symbol], pos.take_profit))) =>
                    /\ Len(res) = 1
                    /\ res[1].order_type = "MARKET"
                    /\ res[1].side = "BUY"
                    /\ res[1].quantity = Abs(pos.quantity)

\* the Fills the process_bar call of the step returned for the order, as positions
FillsOf(order) == {j \in 1..Len(fills') : fills'[j].order_id = order.order_id}

\* the price a Fill had before the slippage adjustment
TrialOf(f) ==
    IF f.side = "BUY" THEN f.fill_price - f.slippage \div f.quantity
    ELSE f.fill_price + f.slippage \div f.quantity

\* the trial fill price the order should get on the bar (None: unfilled)
ExpectedTrial(order, bar) ==
    IF order.order_type = "MARKET" THEN bar.open
    ELSE IF order.side = "BUY"
    THEN (IF bar.low <= order.limit_price
          THEN (IF order.limit_price < bar.open THEN order.limit_price ELSE bar.open)
          ELSE None)
    ELSE (IF bar.high >= order.limit_price
          THEN (IF order.limit_price > bar.open THEN order.limit_price ELSE bar.open)
          ELSE None)

\* C23: on a bar of its symbol a MARKET order fills at bar.open; a LIMIT BUY fills
\* iff bar.low <= limit_price, at min(limit_price, bar.open); a LIMIT SELL fills
\* iff bar.high >= limit_price, at max(limit_price, bar.open); otherwise the order
\* is unfilled on that bar.
C23_TrialFillPrice ==
    [][ProcessBarStep =>
        \A k \in 1..Len(pending) :
            pending[k].order.symbol \in DOMAIN Events(idx') =>
                LET order == pending[k].order
                    expected == ExpectedTrial(order, Events(idx')[order.symbol])
                IN  IF expected = None THEN FillsOf(order) = {}
                    ELSE /\ Cardinality(FillsOf(order)) = 1
                         /\ \A j \in FillsOf(order) : TrialOf(fills'[j]) = expected]_vars

\* C23 witness: a LIMIT BUY of A with limit 11000 filled at the bar's open 10000
\* (open below the limit), while a LIMIT order that did not cross is still queued
C23_Witness ==
    /\ \E j \in 1..Len(fills) : \E i \in 1..Len(orders) :
            /\ orders[i].order_id = fills[j].order_id
            /\ orders[i].order_type = "LIMIT" /\ orders[i].side = "BUY"
            /\ orders[i].limit_price = 11000
            /\ TrialOf(fills[j]) = 10000
    /\ \E k \in 1..Len(pending) :
            pending[k].order.order_type = "LIMIT" /\ pending[k].bars_waited >= 1

\* C24: for every fill, fill_price is the trial price plus the slippage cost for a
\* BUY and minus it for a SELL, the commission is computed on that adjusted
\* price, and the order is marked FILLED.
C24_SlippageAndCommission ==
    [][ProcessBarStep =>
        \A j \in 1..Len(fills') :
            \E k \in 1..Len(pending) :
                LET order == pending[k].order
                    bar == Events(idx')[order.symbol]
                    trial == TryFill(order, bar)
                    slip == SlippageApply(order.side, trial, order.quantity, bar)
                IN  /\ order.order_id = fills'[j].order_id
                    /\ fills'[j].side = order.side
                    /\ order.side = "BUY" => fills'[j].fill_price = trial + slip
                    /\ order.side = "SELL" => fills'[j].fill_price = trial - slip
                    /\ fills'[j].commission
                         = CommissionCalculate(order.quantity, fills'[j].fill_price)
                    /\ \E i \in 1..Len(orders') :
                            /\ orders'[i].order_id = order.order_id
                            /\ orders'[i].status = "FILLED"]_vars

\* C24 witness: one process_bar call filled a MARKET BUY and a MARKET SELL of A at
\* the open 10000: 10100 and 9900 after slippage, commissions 1010 and 990
C24_Witness ==
    /\ Len(fills) = 2
    /\ fills[1].side = "BUY" /\ fills[1].fill_price = 10100 /\ fills[1].commission = 1010
    /\ fills[2].side = "SELL" /\ fills[2].fill_price = 9900 /\ fills[2].commission = 990
    /\ orders[1].status = "FILLED" /\ orders[2].status = "FILLED"

\* position of the order with this id in `orders` (orders are appended as they
\* are submitted)
SubmissionRank(order_id) == CHOOSE i \in 1..Len(orders) : orders[i].order_id = order_id

\* C25: process_bar returns its fills in the order in which the orders were
\* submitted, and the orders that stay pending keep their relative submission
\* order in the queue across process_bar calls.
C25_FifoOrder ==
    /\ \A j, k \in 1..Len(fills) :
            j < k => SubmissionRank(fills[j].order_id) < SubmissionRank(fills[k].order_id)
    /\ \A j, k \in 1..Len(pending) :
            j < k => SubmissionRank(pending[j].order.order_id)
                        < SubmissionRank(pending[k].order.order_id)

\* C25 witness: three orders submitted; one process_bar call filled the first and
\* the third, in that order, and left the second in the queue
C25_Witness ==
    /\ Len(orders) = 3
    /\ Len(fills) = 2
    /\ fills[1].order_id = orders[1].order_id
    /\ fills[2].order_id = orders[3].order_id
    /\ Len(pending) = 1
    /\ pending[1].order.order_id = orders[2].order_id
    /\ pending[1].bars_waited = 1

\* number of orders the sweep of the step created (they are created first)
NumSweepOrders == Len(CheckStopConditions(portfolio.positions, Events(idx + 1)))

\* the signals of the step whose symbol is sym, in collection order
SignalsFor(sym) == SelectSeq(StepSignals, LAMBDA sg : sg.symbol = sym)

\* C26: each order produced at step 3 is recorded in the order_id -> strategy_id
\* map with the strategy_id of the first signal of the bar, in collection order,
\* whose symbol equals the order's symbol; every order of the stop/TP sweep is
\* recorded with "__risk__"; each Fill carries the strategy_id recorded for its
\* order_id.
C26_Attribution ==
    [][BarStep =>
        /\ \A i \in (Len(orders) + 1)..Len(orders') :
            /\ orders'[i].order_id \in DOMAIN order_strategy_map'
            /\ i <= Len(orders) + NumSweepOrders =>
                    order_strategy_map'[orders'[i].order_id] = RISK_ID
            /\ i > Len(orders) + NumSweepOrders =>
                    /\ SignalsFor(orders'[i].symbol) # <<>>
                    /\ order_strategy_map'[orders'[i].order_id]
                         = SignalsFor(orders'[i].symbol)[1].strategy_id
        /\ \A j \in 1..Len(fills') :
                fills'[j].strategy_id = order_strategy_map'[fills'[j].order_id]
        /\ \A j \in 1..Len(portfolio'.trades) :
                portfolio'.trades[j].strategy_id
                    = order_strategy_map'[portfolio'.trades[j].order_id]]_vars

\* C26 witness: A is held with a stop the bar reaches, and on that bar S1 and S2
\* both signal FLAT for A: the sweep's SELL is recorded and filled under
\* "__risk__", the two SELLs of step 3 both under S1
C26_Witness ==
    /\ run = 1
    /\ script # <<>>
    /\ Len(Last(script).signals) = 2
    /\ Last(script).signals[1].symbol = "A" /\ Last(script).signals[2].symbol = "A"
    /\ Last(script).signals[1].strategy_id = "S1"
    /\ Last(script).signals[2].strategy_id = "S2"
    /\ Len(fills) = 3
    /\ fills[1].strategy_id = RISK_ID
    /\ fills[2].strategy_id = "S1" /\ fills[3].strategy_id = "S1"
    /\ order_strategy_map[fills[3].order_id] = "S1"

\* the equity curve holds one snapshot per pair the loop has processed, with the
\* pairs' timestamps in ascending order
OneSnapshotPerBar ==
    /\ Len(portfolio.equity_curve) = idx
    /\ \A i \in 1..Len(portfolio.equity_curve) : portfolio.equity_curve[i].timestamp = i
    /\ \A i, j \in 1..Len(portfolio.equity_curve) :
            i < j => portfolio.equity_curve[i].timestamp
                        < portfolio.equity_curve[j].timestamp

\* C27: on a finite feed BacktestEngine.run terminates (the loop reaches the end
\* of the feed, after which nothing changes any more), and the equity curve then
\* holds exactly one snapshot per (T, bars) pair of the feed, with strictly
\* ascending timestamps.
C27_RunTerminates ==
    <>(RunDone /\ OneSnapshotPerBar /\ Len(portfolio.equity_curve) = NumBars)

\* C27 witness: the loop is over after trading, with one snapshot per pair
C27_Witness ==
    /\ RunDone
    /\ Len(portfolio.equity_curve) = NumBars
    /\ Len(Trades) >= 2
    /\ Last(portfolio.equity_curve).timestamp = NumBars

(* ------------------------------------------------------------------ *)
(* C28: a run with no strategies                                      *)
(* ------------------------------------------------------------------ *)

\* a quotient that is the float 0.0
IsZero(q) == q.num = 0 /\ q.den # 0

\* C28: in a run in which no strategy contributes a signal (the strategies list is
\* empty), no order is ever submitted, the trade log is empty, every snapshot has
\* equity = cash = initial_capital, and, once there is a snapshot, equity_curve()
\* returns one row per snapshot with drawdown 0 (before the first snapshot
\* equity_curve() raises and there is no row to speak of)
C28_IdleRun ==
    /\ order_counter = 0
    /\ orders = <<>>
    /\ pending = <<>>
    /\ order_strategy_map = <<>>
    /\ Trades = <<>>
    /\ \A i \in 1..Len(portfolio.equity_curve) :
        /\ portfolio.equity_curve[i].equity = initial_capital
        /\ portfolio.equity_curve[i].cash = initial_capital
    /\ portfolio.equity_curve # <<>> =>
        LET df == EquityCurve(portfolio)
        IN  /\ df.error = ""
            /\ Len(df.rows) = Len(portfolio.equity_curve)
            /\ \A i \in 1..Len(df.rows) :
                /\ df.rows[i].equity = initial_capital
                /\ df.rows[i].cash = initial_capital
                /\ IsZero(df.rows[i].drawdown)

\* the idle run has gone through the whole feed, one snapshot per bar group
C28_Witness ==
    /\ idx = NumBars
    /\ Len(script) = NumBars
    /\ \A i \in 1..Len(script) : script[i].signals = <<>>
    /\ EquityCurve(portfolio).error = ""
    /\ Len(EquityCurve(portfolio).rows) = NumBars

(* ------------------------------------------------------------------ *)
(* C29: BarFeed iteration                                             *)
(* ------------------------------------------------------------------ *)

\* the symbol's frame has a bar at timestamp T
HasBarAt(sym, T) == T \in {iter.data[sym][i].timestamp : i \in 1..Len(iter.data[sym])}

\* the timestamps at which at least one symbol has a bar
BarTimestamps == {T \in 1..MaxTs : \E sym \in DOMAIN iter.data : HasBarAt(sym, T)}

IterDone == iter.data # <<>> /\ iter.cursor = Len(iter.index)

\* C29: the pairs yielded by iterating a BarFeed have strictly ascending timestamps
\* (so none is yielded twice); the group of T holds exactly the symbols that have a
\* bar at T, each event carrying timestamp T and its symbol's row; no group is
\* empty; and when the iteration ends every timestamp with a bar has been yielded
C29_FeedIteration ==
    iter.data # <<>> =>
        LET ys == iter.yielded
        IN  /\ \A i \in 1..(Len(ys) - 1) : ys[i][1] < ys[i + 1][1]
            /\ \A i \in 1..Len(ys) :
                LET T == ys[i][1]
                    group == ys[i][2]
                IN  /\ DOMAIN group = {sym \in DOMAIN iter.data : HasBarAt(sym, T)}
                    /\ DOMAIN group # {}
                    /\ \A sym \in DOMAIN group :
                        /\ group[sym].timestamp = T
                        /\ group[sym].symbol = sym
                        /\ group[sym].close = MarketEvent(sym, T).close
            /\ {ys[i][1] : i \in 1..Len(ys)} \subseteq BarTimestamps
            /\ IterDone => {ys[i][1] : i \in 1..Len(ys)} = BarTimestamps

\* a finished iteration over frames given in descending row order, with a timestamp
\* between the first and the last at which no symbol has a bar, a group of two
\* symbols and a group of one
C29_Witness ==
    /\ IterDone
    /\ Len(iter.yielded) = 3
    /\ \E T \in 1..MaxTs :
        /\ T \notin BarTimestamps
        /\ iter.yielded[1][1] < T
        /\ T < iter.yielded[3][1]
    /\ \E i \in 1..3 : DOMAIN iter.yielded[i][2] = SymbolSet
    /\ \E i \in 1..3 : DOMAIN iter.yielded[i][2] = {"B"}
    /\ FrameIndex(iter.data["A"])[1] > FrameIndex(iter.data["A"])[2]

(* ------------------------------------------------------------------ *)
(* C30: an exception raised by on_bar                                 *)
(* ------------------------------------------------------------------ *)

\* the loop takes no step once the exception has left run()
RunStopped == [][raised = NoError]_vars

\* the equity curve holds the snapshots of the bars before the raising one only
NoSnapshotFrom(ts) ==
    /\ Len(portfolio.equity_curve) = ts - 1
    /\ \A i \in 1..Len(portfolio.equity_curve) : portfolio.equity_curve[i].timestamp < ts

\* C30: an exception raised by a strategy's on_bar is not caught by the engine: it
\* reaches the caller of run(), the loop stops at that bar, and no snapshot is
\* appended for that bar or any later bar
C30_StrategyErrorStopsRun ==
    /\ [](raised # NoError => idx = raised.timestamp - 1 /\ NoSnapshotFrom(raised.timestamp))
    /\ RunStopped

\* on_bar raised on a bar after the first, after the sweep of that bar had submitted
\* a stop order that is left in the broker's queue
C30_Witness ==
    /\ raised # NoError
    /\ raised.timestamp >= 2
    /\ Len(portfolio.equity_curve) = raised.timestamp - 1
    /\ \E i \in 1..Len(pending) :
        /\ pending[i].order.timestamp = raised.timestamp
        /\ order_strategy_map[pending[i].order.order_id] = RISK_ID

(* ------------------------------------------------------------------ *)
(* C31: a failing order is skipped                                    *)
(* ------------------------------------------------------------------ *)

\* the item is a LIMIT order without limit_price
Malformed(item) == item.order.order_type = "LIMIT" /\ item.order.limit_price = None

\* the status of the order object of a queue item after the step
StatusNext(item) ==
    LET i == CHOOSE j \in 1..Len(orders') : orders'[j].order_id = item.order.order_id
    IN  orders'[i].status

\* C31: when the broker fails on one order (a LIMIT order with no limit_price), that
\* order is skipped and processing continues: no exception leaves process_bar and
\* every other order of the queue is processed against the bar
C31_FaultyOrderSkipped ==
    [][ProcessBarStep =>
        /\ raised' = NoError
        /\ \A i \in 1..Len(pending) :
            ~Malformed(pending[i]) =>
                StatusNext(pending[i]) = ProcessItem(pending[i], Events(idx'), order_strategy_map).status]_vars

(* ------------------------------------------------------------------ *)
(* C32: history of an unknown symbol                                  *)
(* ------------------------------------------------------------------ *)

\* the last history call named a symbol that is not in the dataset
UnknownLookup == hist # NoHist /\ hist.symbol \notin DOMAIN iter.data

\* a history call leaves the feed's data as it was
DataUnchanged == [][iter'.data = iter.data]_vars

\* C32: BarFeed.history called with a symbol that is not in the dataset fails with
\* an error and returns no bars, whatever up_to and n are, and the feed's data is
\* unchanged
C32_UnknownSymbolFails ==
    /\ [](UnknownLookup => hist.error = "KeyError" /\ hist.rows = <<>>)
    /\ DataUnchanged

\* history was called for the unknown symbol "Z" with an up_to inside the feed and
\* an n, on a feed in which both symbols have bars at or before up_to
C32_Witness ==
    /\ UnknownLookup
    /\ hist.symbol = "Z" /\ hist.up_to = 3 /\ hist.n = 2
    /\ hist.error = "KeyError"
    /\ \A sym \in DOMAIN iter.data :
        \E i \in 1..Len(iter.data[sym]) : iter.data[sym][i].timestamp <= hist.up_to

(* ------------------------------------------------------------------ *)
(* C33: history truncated to the last n bars                          *)
(* ------------------------------------------------------------------ *)

\* the symbol's bars with timestamp <= up_to, ascending
BarsUpTo(sym, up_to) == SelectSeq(Data(sym), LAMBDA r : r.timestamp <= up_to)

\* C33: when n is given (n >= 0), history(symbol, up_to, n) returns exactly the last
\* min(n, k) of the k bars with timestamp <= up_to, in ascending order, so never more
\* than n bars
C33_LastNBars ==
    (hist # NoHist /\ hist.n # None /\ hist.n >= 0) =>
        LET bars == BarsUpTo(hist.symbol, hist.up_to)
            k == Len(bars)
            m == Min(hist.n, k)
        IN  /\ Len(hist.rows) <= hist.n
            /\ hist.rows = SubSeq(bars, k - m + 1, k)

(* ------------------------------------------------------------------ *)
(* C34: flush_signals                                                 *)
(* ------------------------------------------------------------------ *)

RECURSIVE Flatten(_)
\* the lists returned by the flushes, one after the other
Flatten(lists) == IF lists = <<>> THEN <<>> ELSE lists[1] \o Flatten(Tail(lists))

\* the step is a flush_signals call
FlushStep == Len(strat'.flushes) = Len(strat.flushes) + 1

\* C34: flush_signals returns all signals emitted since the previous flush, in
\* emission order, and empties the buffer (so a second flush with no emit_signal in
\* between returns an empty list); the flushes together with the buffer hold every
\* emitted signal once, in emission order, so no signal is returned by two flushes
C34_FlushDrains ==
    /\ [][FlushStep => Last(strat'.flushes) = strat.signals /\ strat'.signals = <<>>]_vars
    /\ [](LET all == Flatten(strat.flushes) \o strat.signals
          IN  /\ Len(all) = strat.emitted
              /\ \A i \in 1..Len(all) : all[i].seq = i)

\* three flushes: the first returned two signals, the second, with no emit_signal in
\* between, returned none, the third returned the signal emitted after it
C34_Witness ==
    /\ Len(strat.flushes) = 3
    /\ Len(strat.flushes[1]) = 2
    /\ strat.flushes[2] = <<>>
    /\ Len(strat.flushes[3]) = 1
    /\ strat.flushes[3][1].seq = 3
    /\ strat.signals = <<>>

(* ------------------------------------------------------------------ *)
(* C35: number of open long positions                                 *)
(* ------------------------------------------------------------------ *)

\* C35: after every bar of an engine run with allow_short = false the number of open
\* long positions in the Portfolio is <= max_open_positions, also when several LONG
\* signals for different symbols arrive on the same bar
C35_OpenLongsBounded ==
    (run = 1 /\ ~config.allow_short) =>
        OpenLongs(portfolio.positions) <= max_open_positions

(* ------------------------------------------------------------------ *)
(* C36: SELL fills and the shares held                                *)
(* ------------------------------------------------------------------ *)

\* the Portfolio as the j-th fill of the step finds it (the fills are applied in
\* the order process_bar returned them)
PortfolioBefore(j) == ApplyFills(portfolio, SubSeq(fills', 1, j - 1))

\* C36: in an engine run with allow_short = false every SELL fill applied to the
\* Portfolio finds an open long position in its symbol with quantity >= the fill
\* quantity (cash is never credited for shares that are not held), also when two
\* strategies emit FLAT for the same symbol on the same bar
C36_SellFindsLong ==
    [][(BarStep /\ ~config.allow_short) =>
        \A j \in 1..Len(fills') :
            fills'[j].side = "SELL" =>
                HeldQty(PortfolioBefore(j).positions, fills'[j].symbol) >= fills'[j].quantity]_vars

(* ------------------------------------------------------------------ *)
(* C37: no BUY fill on a symbol held long                             *)
(* ------------------------------------------------------------------ *)

\* C37: in an engine run a BUY fill is never applied to a symbol that is already
\* held long (a long position is never averaged up), also when two strategies emit
\* LONG for the same symbol on the same bar
C37_NoAveragingUp ==
    [][BarStep =>
        \A j \in 1..Len(fills') :
            fills'[j].side = "BUY" =>
                HeldQty(PortfolioBefore(j).positions, fills'[j].symbol) <= 0]_vars

(* ------------------------------------------------------------------ *)
(* C38: the strategy whose signal caused the order                    *)
(* ------------------------------------------------------------------ *)

RECURSIVE CausingStrategies(_)
\* for each order process_signals creates from the signals, in creation order, the
\* strategy_id of the signal whose loop iteration appended it
CausingStrategies(signals) ==
    IF signals = <<>> THEN <<>>
    ELSE LET made == SignalOrders(config, signals[1], Events(idx + 1),
                                  Equity(portfolio), portfolio.positions)
         IN  [i \in 1..Len(made) |-> signals[1].strategy_id]
                \o CausingStrategies(Tail(signals))

\* C38: every trade-log row produced from a signal-driven order carries the
\* strategy_id of the strategy whose signal caused that order, also when several
\* strategies emit signals for the same symbol on the same bar and only a later one
\* results in an order
C38_CausingStrategy ==
    [][BarStep =>
        \A k \in 1..Len(CausingStrategies(StepSignals)) :
            LET o == orders'[Len(orders) + NumSweepOrders + k]
            IN  \A j \in 1..Len(portfolio'.trades) :
                    portfolio'.trades[j].order_id = o.order_id =>
                        portfolio'.trades[j].strategy_id = CausingStrategies(StepSignals)[k]]_vars

(* ------------------------------------------------------------------ *)
(* C39: cash after a fill                                             *)
(* ------------------------------------------------------------------ *)

\* C39: in an engine run with allow_short = false Portfolio cash is >= 0 after
\* every fill: no BUY fill is applied whose cost (fill_price * quantity + commission)
\* exceeds the cash available, for any number of BUY orders filled on the same bar
C39_CashNonNegative ==
    [][(BarStep /\ ~config.allow_short) =>
        \A j \in 1..Len(fills') : PortfolioBefore(j + 1).cash >= 0]_vars

====
